---- MODULE Spec2Model ----
(***************************************************************************)
(* Model of the retroshade replay engine (retroshade/src/lib.rs,           *)
(* retroshade/src/state.rs).                                               *)
(*                                                                         *)
(* A RetroshadesExecution object holds the working set                     *)
(* target_pre_execution_state (a vector of (LedgerEntry, Option<u32>)      *)
(* pairs) and the replay context (host function, resources, auth entries,  *)
(* source account).  build_from_envelope_and_meta runs three stages on it: *)
(* build_current_state, state_reset_to_pre_execution, replace_binaries.    *)
(*                                                                         *)
(* Option<T> is modelled as a sequence of length at most one: <<>> is      *)
(* None and <<x>> is Some(x).  A Result is a record with a field "type".   *)
(***************************************************************************)
EXTENDS Integers, Sequences, FiniteSets, TLC

VARIABLES
    target_pre_execution_state, \* the working set: Seq of <<entry, live_until>>
    host_function,              \* Option<HostFunction>
    auth_entries,               \* Vec<SorobanAuthorizationEntry>
    resources,                  \* Option<SorobanResources>
    source_account,             \* Option<AccountId>
    pc,                         \* position inside build_from_envelope_and_meta
    tx_envelope,                \* Option: the envelope handed to the call
    tx_meta,                    \* the TransactionMetaV3.operations handed to the call
    mercury_contracts,           \* the substitution map handed to replace_binaries
    result,                     \* what the last call or stage returned
    stages,                     \* the stages the build call has run, in order, each
                                \* with what it returned
    pre_state,                  \* the working set as it was when the last stage began
    executor_input,             \* Option: what retroshade() handed to execute_svm
    ledger_pre,                 \* the ledger P before the transaction executed
    ledger,                     \* the ledger the snapshot source answers from
    env_pc,                     \* "pre": transaction not yet applied, "post": applied
    snapshot,                   \* an InternalSnapshot: inner_source,
                                \* target_pre_execution_state, force_remove
    get_key,                    \* Option: the key of the last InternalSnapshot::get
    get_result,                 \* what the last InternalSnapshot::get returned
    inner_calls,                \* the keys the last get asked inner_source for
    scval,                      \* Option: the ScVal handed to from_scval
    recursion_depth,            \* the caller's counter that from_scval borrows
    depth_in,                   \* the counter as the last from_scval received it
    converted,                  \* Option: the FromScVal the last from_scval returned
    calls,                      \* number of from_scval calls the caller has made
    retroshades,                \* the export records the executor returns
    packed                      \* Option: what the last retroshade_packed returned

vars == <<target_pre_execution_state, host_function, auth_entries, resources,
          source_account, pc, tx_envelope, tx_meta, mercury_contracts, result, stages,
          pre_state, executor_input, ledger_pre, ledger, env_pc, snapshot, get_key,
          get_result, inner_calls, scval, recursion_depth, depth_in, converted, calls,
          retroshades, packed>>

objvars == <<target_pre_execution_state, host_function, auth_entries, resources,
             source_account>>

envvars == <<ledger_pre, ledger, env_pc>>

snapvars == <<snapshot, get_key, get_result, inner_calls>>

convvars == <<scval, recursion_depth, depth_in, converted, calls>>

packvars == <<retroshades, packed>>

(***************************************************************************)
(* Bounds                                                                  *)
(***************************************************************************)
\* most footprint keys (read_only and read_write together) of an envelope
MaxFootprint == 2
\* most ledger entries one transaction touches
MaxChanges == 2
\* longest working set drawn as the input of replace_binaries
MaxState == 3
\* longest working set drawn as the input of state_reset_to_pre_execution
MaxRewindState == 2
\* most changes of a change log drawn as the input of state_reset_to_pre_execution
MaxLog == 2
\* longest override list of an InternalSnapshot
MaxOverride == 2
\* longest force-absent list of an InternalSnapshot
MaxForceRemove == 1
\* bits of a limb of a 128-bit or 256-bit integer (64 in the program; the
\* composition is checked over every limb value of this width)
LimbBits == 2
\* longest vector handed to from_scval
MaxVecLen == 3
\* most from_scval calls a caller makes with one counter
MaxCalls == 2

MaxRecords == 2

(***************************************************************************)
(* Option and sequence helpers                                             *)
(***************************************************************************)
None == <<>>

Some(x) == <<x>>

IsSome(o) == Len(o) > 0

Range(s) == {s[i] : i \in 1..Len(s)}

SeqsUpTo(S, n) == UNION {[1..m -> S] : m \in 0..n}

(***************************************************************************)
(* XDR values: ScAddress, ScVal, ContractExecutable, LedgerEntryData       *)
(***************************************************************************)
\* Hash is one type for contract ids and for code hashes
Hashes == {0, 1}

ContractAddress(h) == [type |-> "Contract", id |-> h]

AccountAddress(a) == [type |-> "Account", id |-> a]

Wasm(h) == [type |-> "Wasm", hash |-> h]

StellarAsset == [type |-> "StellarAsset"]

LedgerKeyContractInstance == [type |-> "LedgerKeyContractInstance"]

Symbol(s) == [type |-> "Symbol", v |-> s]

U32(n) == [type |-> "U32", v |-> n]

ContractInstance(exe) == [type |-> "ContractInstance", executable |-> exe]

ContractCode(h, c) == [type |-> "ContractCode", hash |-> h, code |-> c]

ContractData(addr, k, d, v) ==
    [type |-> "ContractData", contract |-> addr, key |-> k, durability |-> d, val |-> v]

Trustline(asset, acct, bal) ==
    [type |-> "Trustline", asset |-> asset, account_id |-> acct, balance |-> bal]

Account(acct, bal) == [type |-> "Account", account_id |-> acct, balance |-> bal]

\* a variant outside the four the engine matches on
Ttl(kh, live) == [type |-> "Ttl", key_hash |-> kh, live_until_ledger_seq |-> live]

\* the LedgerKey an entry is stored under
LedgerKeyOf(e) ==
    CASE e.type = "Account" -> [type |-> "Account", account_id |-> e.account_id]
      [] e.type = "ContractCode" -> [type |-> "ContractCode", hash |-> e.hash]
      [] e.type = "ContractData" ->
            [type |-> "ContractData", contract |-> e.contract, key |-> e.key,
             durability |-> e.durability]
      [] e.type = "Trustline" ->
            [type |-> "Trustline", asset |-> e.asset, account_id |-> e.account_id]
      [] OTHER -> [type |-> "Unmatched"]

(***************************************************************************)
(* state.rs: build_current_state                                           *)
(***************************************************************************)
\* what the object looks like to the methods: the fields of RetroshadesExecution
Self ==
    [target_pre_execution_state |-> target_pre_execution_state,
     host_function |-> host_function,
     auth_entries |-> auth_entries,
     resources |-> resources,
     source_account |-> source_account]

\* MuxedAccount -> AccountId
AccountIdOf(muxed_source) ==
    CASE muxed_source.type = "Ed25519" -> [ed25519 |-> muxed_source.ed25519]
      [] muxed_source.type = "MuxedEd25519" -> [ed25519 |-> muxed_source.ed25519]

\* a variant of FullFootprint that walks read_write first
FullFootprintWriteFirst(res) == res.footprint.read_write \o res.footprint.read_only

\* the footprint in the order the loop walks it
FullFootprint(res) == res.footprint.read_only \o res.footprint.read_write

\* the loop over full_footprint: pushes each answer, leaves at the first failure
RECURSIVE FetchFootprint(_, _, _)
FetchFootprint(state, snapshot_source, keys) ==
    IF keys = <<>>
    THEN [type |-> "Ok", state |-> state]
    ELSE LET answer == snapshot_source[Head(keys)]
         IN  IF answer.type = "Err"
             THEN [type |-> "SVMHost", state |-> state]
             ELSE IF answer.val = None
                  THEN [type |-> "EntryNotFound", key |-> Head(keys), state |-> state]
                  ELSE FetchFootprint(Append(state, answer.val[1]),
                                      snapshot_source, Tail(keys))

BuildCurrentState(self, snapshot_source, envelope) ==
    LET tx_source == envelope.tx.source_account
        ext == envelope.tx.ext
        ops == envelope.tx.operations
    IN  IF ext.type = "V0"
        THEN [self |-> self, result |-> [type |-> "NotSorobanTx"]]
        ELSE LET self1 == [self EXCEPT !.resources = Some(ext.resources)]
             IN  IF Len(ops) = 0
                 THEN [self |-> self1, result |-> [type |-> "NotSorobanTx"]]
                 ELSE IF ops[1].body.type # "InvokeHostFunction"
                 THEN [self |-> self1, result |-> [type |-> "NotSorobanTx"]]
                 ELSE LET muxed_source ==
                              IF IsSome(ops[1].source_account)
                              THEN ops[1].source_account[1] ELSE tx_source
                          self2 == [self1 EXCEPT
                                      !.auth_entries = ops[1].body.auth,
                                      !.host_function = Some(ops[1].body.host_function),
                                      !.source_account = Some(AccountIdOf(muxed_source))]
                          fetched == FetchFootprint(self2.target_pre_execution_state,
                                                    snapshot_source,
                                                    FullFootprint(ext.resources))
                      IN  [self |-> [self2 EXCEPT
                                       !.target_pre_execution_state = fetched.state],
                           result |-> IF fetched.type = "Ok"
                                      THEN [type |-> "Ok"]
                                      ELSE [type |-> fetched.type]]

(***************************************************************************)
(* state.rs: update_entries, remove_entry, process_operation,              *)
(* state_reset_to_pre_execution                                            *)
(***************************************************************************)
\* a variant of UpdateMatches that compares ContractData entries by their key
\* alone
UpdateMatchesByKeyOnly(data, pre) ==
    CASE data.type = "ContractCode" ->
            pre.type = "ContractCode" /\ pre.hash = data.hash
      [] data.type = "ContractData" ->
            pre.type = "ContractData" /\ data.key = pre.key
      [] data.type = "Trustline" ->
            pre.type = "Trustline" /\ data.asset = pre.asset
                                   /\ data.account_id = pre.account_id
      [] data.type = "Account" ->
            pre.type = "Account" /\ data.account_id = pre.account_id
      [] OTHER -> FALSE

\* the per-variant test update_entries makes between a working-set entry and
\* the recorded State entry
UpdateMatches(data, pre) ==
    CASE data.type = "ContractCode" ->
            pre.type = "ContractCode" /\ pre.hash = data.hash
      [] data.type = "ContractData" ->
            pre.type = "ContractData" /\ data.contract = pre.contract
                                      /\ data.key = pre.key
      [] data.type = "Trustline" ->
            pre.type = "Trustline" /\ data.asset = pre.asset
                                   /\ data.account_id = pre.account_id
      [] data.type = "Account" ->
            pre.type = "Account" /\ data.account_id = pre.account_id
      [] OTHER -> FALSE

\* a variant of UpdateEntries that does not keep the entry's liveness horizon
UpdateEntriesDropHorizon(state, pre_execution, changed) ==
    [state |-> [i \in 1..Len(state) |->
                    IF UpdateMatches(state[i][1], pre_execution)
                    THEN <<pre_execution, None>>
                    ELSE state[i]],
     changed |-> changed \/ \E i \in 1..Len(state) :
                                UpdateMatches(state[i][1], pre_execution)]

\* a variant of UpdateEntries that raises the flag only when an entry's value
\* differs afterwards
UpdateEntriesFlagOnDifference(state, pre_execution, changed) ==
    [state |-> [i \in 1..Len(state) |->
                    IF UpdateMatches(state[i][1], pre_execution)
                    THEN <<pre_execution, state[i][2]>>
                    ELSE state[i]],
     changed |-> changed \/ \E i \in 1..Len(state) :
                                /\ UpdateMatches(state[i][1], pre_execution)
                                /\ state[i][1] # pre_execution]

UpdateEntries(state, pre_execution, changed) ==
    [state |-> [i \in 1..Len(state) |->
                    IF UpdateMatches(state[i][1], pre_execution)
                    THEN <<pre_execution, state[i][2]>>
                    ELSE state[i]],
     changed |-> changed \/ \E i \in 1..Len(state) :
                                UpdateMatches(state[i][1], pre_execution)]

\* the per-variant test remove_entry makes
RemoveMatches(data, created) ==
    CASE data.type = "ContractCode" -> FALSE
      [] data.type = "ContractData" ->
            created.type = "ContractData" /\ data.contract = created.contract
                                          /\ data.key = created.key
      [] OTHER -> FALSE

\* indices (0-based, ascending) collected in to_delete
RECURSIVE ToDelete(_, _, _)
ToDelete(state, created, idx) ==
    IF idx >= Len(state)
    THEN <<>>
    ELSE IF RemoveMatches(state[idx + 1][1], created)
         THEN <<idx>> \o ToDelete(state, created, idx + 1)
         ELSE ToDelete(state, created, idx + 1)

\* a variant of RemoveAt that is off by one
RemoveAtOffByOne(state, idx0) ==
    [i \in 1..(Len(state) - 1) |-> IF i < idx0 THEN state[i] ELSE state[i + 1]]

\* Vec::remove at a 0-based index
RemoveAt(state, idx0) ==
    [i \in 1..(Len(state) - 1) |-> IF i <= idx0 THEN state[i] ELSE state[i + 1]]

\* a variant of RemoveLoop that does not shift the indices after a removal
RECURSIVE RemoveLoopNoShift(_, _, _, _, _)
RemoveLoopNoShift(state, to_delete, shift, changed, errors) ==
    IF to_delete = <<>>
    THEN [state |-> state, changed |-> changed, errors |-> errors]
    ELSE LET target_idx_adjusted == Head(to_delete)
         IN  IF Len(state) > target_idx_adjusted
             THEN RemoveLoopNoShift(RemoveAt(state, target_idx_adjusted),
                                    Tail(to_delete), shift + 1, TRUE, errors)
             ELSE RemoveLoopNoShift(state, Tail(to_delete), shift, changed,
                                    errors + 1)

\* the second loop of remove_entry; errors counts the executions of the
\* log::error! branch
RECURSIVE RemoveLoop(_, _, _, _, _)
RemoveLoop(state, to_delete, shift, changed, errors) ==
    IF to_delete = <<>>
    THEN [state |-> state, changed |-> changed, errors |-> errors]
    ELSE LET target_idx_adjusted == Head(to_delete) - shift
         IN  IF Len(state) > target_idx_adjusted
             THEN RemoveLoop(RemoveAt(state, target_idx_adjusted), Tail(to_delete),
                             shift + 1, TRUE, errors)
             ELSE RemoveLoop(state, Tail(to_delete), shift, changed, errors + 1)

RemoveEntry(state, current_state_entry, changed) ==
    RemoveLoop(state, ToDelete(state, current_state_entry, 0), 0, changed, 0)

\* a variant of ProcessChanges in which an Updated with no recorded State
\* applies its own entry
RECURSIVE ProcessChangesUpdatedApplies(_, _, _, _)
ProcessChangesUpdatedApplies(state, changes, current_state, changed) ==
    IF changes = <<>>
    THEN [state |-> state, changed |-> changed, current_state |-> current_state]
    ELSE LET change == Head(changes)
         IN  CASE change.type = "State" ->
                    ProcessChangesUpdatedApplies(state, Tail(changes),
                                                 Some(change.entry), changed)
               [] change.type = "Updated" ->
                    LET u == UpdateEntries(state,
                                           IF IsSome(current_state)
                                           THEN current_state[1] ELSE change.entry,
                                           changed)
                    IN  ProcessChangesUpdatedApplies(u.state, Tail(changes), None,
                                                     u.changed)
               [] change.type = "Created" ->
                    LET r == RemoveEntry(state, change.entry, changed)
                    IN  ProcessChangesUpdatedApplies(r.state, Tail(changes),
                                                     current_state, r.changed)
               [] OTHER ->
                    ProcessChangesUpdatedApplies(state, Tail(changes), current_state,
                                                 changed)

\* a variant of ProcessChanges that applies a State entry as soon as it meets it
RECURSIVE ProcessChangesApplyAtState(_, _, _, _)
ProcessChangesApplyAtState(state, changes, current_state, changed) ==
    IF changes = <<>>
    THEN [state |-> state, changed |-> changed, current_state |-> current_state]
    ELSE LET change == Head(changes)
         IN  CASE change.type = "State" ->
                    LET u == UpdateEntries(state, change.entry, changed)
                    IN  ProcessChangesApplyAtState(u.state, Tail(changes), None,
                                                   u.changed)
               [] change.type = "Created" ->
                    LET r == RemoveEntry(state, change.entry, changed)
                    IN  ProcessChangesApplyAtState(r.state, Tail(changes),
                                                   current_state, r.changed)
               [] OTHER ->
                    ProcessChangesApplyAtState(state, Tail(changes), current_state,
                                               changed)

\* the loop of process_operation from a given current_state on
RECURSIVE ProcessChanges(_, _, _, _)
ProcessChanges(state, changes, current_state, changed) ==
    IF changes = <<>>
    THEN [state |-> state, changed |-> changed, current_state |-> current_state]
    ELSE LET change == Head(changes)
         IN  CASE change.type = "State" ->
                    ProcessChanges(state, Tail(changes), Some(change.entry), changed)
               [] change.type = "Updated" ->
                    IF IsSome(current_state)
                    THEN LET u == UpdateEntries(state, current_state[1], changed)
                         IN  ProcessChanges(u.state, Tail(changes), None, u.changed)
                    ELSE ProcessChanges(state, Tail(changes), None, changed)
               [] change.type = "Created" ->
                    LET r == RemoveEntry(state, change.entry, changed)
                    IN  ProcessChanges(r.state, Tail(changes), current_state, r.changed)
               [] OTHER ->
                    ProcessChanges(state, Tail(changes), current_state, changed)

ProcessOperation(state, op, changed) ==
    ProcessChanges(state, op.changes, None, changed)

RECURSIVE StateResetLoop(_, _, _)
StateResetLoop(state, operations, changed) ==
    IF operations = <<>>
    THEN [state |-> state, changed |-> changed]
    ELSE LET r == ProcessOperation(state, Head(operations), changed)
         IN  StateResetLoop(r.state, Tail(operations), r.changed)

StateResetToPreExecution(state, meta) ==
    LET r == StateResetLoop(state, meta, FALSE)
    IN  [state |-> r.state, result |-> [type |-> "Ok", value |-> r.changed]]

(***************************************************************************)
(* state.rs: replace_binaries                                              *)
(***************************************************************************)
\* a variant of BinariesMutation that looks the substitution up by the code hash
\* the instance record references
RECURSIVE BinariesMutationByCodeHash(_, _, _, _)
BinariesMutationByCodeHash(state, contracts, idx, acc) ==
    IF idx > Len(state)
    THEN [type |-> "Ok", map |-> acc]
    ELSE LET data == state[idx][1]
         IN  IF data.type # "ContractData"
             THEN BinariesMutationByCodeHash(state, contracts, idx + 1, acc)
             ELSE IF data.contract.type # "Contract"
             THEN [type |-> "MalformedXdr", map |-> acc]
             ELSE IF /\ data.key = LedgerKeyContractInstance
                     /\ data.val.type = "ContractInstance"
                     /\ data.val.executable.type = "Wasm"
                     /\ data.val.executable.hash \in DOMAIN contracts
                  THEN BinariesMutationByCodeHash(state, contracts, idx + 1,
                          [h \in DOMAIN acc \cup {data.val.executable.hash} |->
                              IF h = data.val.executable.hash
                              THEN contracts[data.val.executable.hash]
                              ELSE acc[h]])
                  ELSE BinariesMutationByCodeHash(state, contracts, idx + 1, acc)

\* the first pass: binaries_mutation as a function from code hashes to new
\* code, or the early return with MalformedXdr
RECURSIVE BinariesMutation(_, _, _, _)
BinariesMutation(state, contracts, idx, acc) ==
    IF idx > Len(state)
    THEN [type |-> "Ok", map |-> acc]
    ELSE LET data == state[idx][1]
         IN  IF data.type # "ContractData"
             THEN BinariesMutation(state, contracts, idx + 1, acc)
             ELSE IF data.contract.type # "Contract"
             THEN [type |-> "MalformedXdr", map |-> acc]
             ELSE IF /\ data.contract.id \in DOMAIN contracts
                     /\ data.key = LedgerKeyContractInstance
                     /\ data.val.type = "ContractInstance"
                     /\ data.val.executable.type = "Wasm"
                  THEN BinariesMutation(state, contracts, idx + 1,
                          [h \in DOMAIN acc \cup {data.val.executable.hash} |->
                              IF h = data.val.executable.hash
                              THEN contracts[data.contract.id]
                              ELSE acc[h]])
                  ELSE BinariesMutation(state, contracts, idx + 1, acc)

\* a variant of ReplaceBinaries that reports a substitution whenever the first
\* pass collected a mapping
ReplaceBinariesFlagFromMap(state, contracts) ==
    LET binaries_mutation == BinariesMutation(state, contracts, 1, <<>>)
    IN  IF binaries_mutation.type # "Ok"
        THEN [state |-> state, result |-> [type |-> "MalformedXdr"]]
        ELSE LET hit(i) == /\ state[i][1].type = "ContractCode"
                           /\ state[i][1].hash \in DOMAIN binaries_mutation.map
             IN  [state |-> [i \in 1..Len(state) |->
                                IF hit(i)
                                THEN <<[state[i][1] EXCEPT
                                          !.code = binaries_mutation.map[state[i][1].hash]],
                                       state[i][2]>>
                                ELSE state[i]],
                      result |-> [type |-> "Ok",
                                  value |-> DOMAIN binaries_mutation.map # {}]]

ReplaceBinaries(state, contracts) ==
    LET binaries_mutation == BinariesMutation(state, contracts, 1, <<>>)
    IN  IF binaries_mutation.type # "Ok"
        THEN [state |-> state, result |-> [type |-> "MalformedXdr"]]
        ELSE LET hit(i) == /\ state[i][1].type = "ContractCode"
                           /\ state[i][1].hash \in DOMAIN binaries_mutation.map
             IN  [state |-> [i \in 1..Len(state) |->
                                IF hit(i)
                                THEN <<[state[i][1] EXCEPT
                                          !.code = binaries_mutation.map[state[i][1].hash]],
                                       state[i][2]>>
                                ELSE state[i]],
                      result |-> [type |-> "Ok",
                                  value |-> \E i \in 1..Len(state) : hit(i)]]

(***************************************************************************)
(* The ledger the replayed transaction ran on.  The transaction turns the  *)
(* ledger P (ledger_pre) into Q (ledger) and records its changes the way   *)
(* the host ledger does: State then Updated for a modified entry, Created  *)
(* for a new entry, State then Removed for a deleted entry.                *)
(***************************************************************************)
CodeKey(h) == [type |-> "ContractCode", hash |-> h]

DataKey(addr, k, d) ==
    [type |-> "ContractData", contract |-> addr, key |-> k, durability |-> d]

AccountKey(a) == [type |-> "Account", account_id |-> a]

InstanceKey == DataKey(ContractAddress(0), LedgerKeyContractInstance, "Persistent")

CounterKey == DataKey(ContractAddress(0), Symbol("k"), "Persistent")

\* the same contract and logical key in the other durability class
TempCounterKey == DataKey(ContractAddress(0), Symbol("k"), "Temporary")

\* the keys of the ledger, in the order the change log lists them
KeyOrder == <<CodeKey(0), InstanceKey, CounterKey, TempCounterKey>>

Keys == Range(KeyOrder)

\* the entry stored under a key, in its first or second version
EntryAt(k, ver) ==
    CASE k.type = "ContractCode" ->
            ContractCode(k.hash, IF ver = 1 THEN "wasm_a" ELSE "wasm_b")
      [] k.type = "ContractData" /\ k.key = LedgerKeyContractInstance ->
            ContractData(k.contract, k.key, k.durability,
                         ContractInstance(Wasm(ver - 1)))
      [] k.type = "ContractData" /\ k.key # LedgerKeyContractInstance ->
            ContractData(k.contract, k.key, k.durability, U32(ver))
      [] k.type = "Account" -> Account(k.account_id, ver)

\* contract code and data carry a liveness horizon, accounts do not
LiveUntilAt(k) ==
    CASE k.type = "ContractCode" -> Some(500)
      [] k.type = "ContractData" -> Some(400)
      [] OTHER -> None

Ledgers ==
    {[k \in Keys |-> IF k \in present THEN Some(<<EntryAt(k, 1), LiveUntilAt(k)>>)
                                      ELSE None] : present \in SUBSET Keys}

WellKeyed(l) == \A k \in Keys : IsSome(l[k]) => LedgerKeyOf(l[k][1][1]) = k

\* a snapshot source that answers from a ledger
LedgerSnapshot(l) == [k \in Keys |-> [type |-> "Ok", val |-> l[k]]]

State(e) == [type |-> "State", entry |-> e]

Updated(e) == [type |-> "Updated", entry |-> e]

Created(e) == [type |-> "Created", entry |-> e]

Removed(k) == [type |-> "Removed", key |-> k]

Plans(l) ==
    {plan \in [Keys -> {"keep", "update", "remove", "create"}] :
        /\ \A k \in Keys : IF IsSome(l[k]) THEN plan[k] # "create"
                                           ELSE plan[k] \in {"keep", "create"}
        /\ Cardinality({k \in Keys : plan[k] # "keep"}) <= MaxChanges}

ApplyPlan(l, plan) ==
    [k \in Keys |->
        CASE plan[k] = "keep" -> l[k]
          [] plan[k] = "update" -> Some(<<EntryAt(k, 2), l[k][1][2]>>)
          [] plan[k] = "remove" -> None
          [] plan[k] = "create" -> Some(<<EntryAt(k, 2), LiveUntilAt(k)>>)]

RECURSIVE ChangeLog(_, _, _)
ChangeLog(l, plan, i) ==
    IF i > Len(KeyOrder)
    THEN <<>>
    ELSE LET k == KeyOrder[i]
             here == CASE plan[k] = "keep" -> <<>>
                       [] plan[k] = "update" ->
                            <<State(l[k][1][1]), Updated(EntryAt(k, 2))>>
                       [] plan[k] = "remove" -> <<State(l[k][1][1]), Removed(k)>>
                       [] plan[k] = "create" -> <<Created(EntryAt(k, 2))>>
         IN  here \o ChangeLog(l, plan, i + 1)

(***************************************************************************)
(* Envelopes                                                               *)
(***************************************************************************)
TxSource == [type |-> "Ed25519", ed25519 |-> 0]

MuxedOpSource == [type |-> "MuxedEd25519", id |-> 7, ed25519 |-> 1]

InvokeHostFunction(src) ==
    [source_account |-> src,
     body |-> [type |-> "InvokeHostFunction", host_function |-> "invoke_t",
               auth |-> <<"auth_t">>]]

Payment == [source_account |-> None, body |-> [type |-> "Payment"]]

OperationLists ==
    {<<>>, <<Payment>>, <<InvokeHostFunction(None)>>,
     <<InvokeHostFunction(Some(MuxedOpSource))>>,
     <<InvokeHostFunction(None), Payment>>,
     <<Payment, InvokeHostFunction(None)>>}

Footprints ==
    {[read_only |-> ro, read_write |-> rw] :
        ro \in SeqsUpTo(Keys, MaxFootprint), rw \in SeqsUpTo(Keys, MaxFootprint)}

V0 == [type |-> "V0"]

V1(fp) == [type |-> "V1", resources |-> [footprint |-> fp]]

Envelope(ext, ops) == [tx |-> [source_account |-> TxSource, ext |-> ext, operations |-> ops]]

HelloFootprint == [read_only |-> <<CodeKey(0)>>, read_write |-> <<InstanceKey>>]

Envelopes ==
    {Envelope(V1(fp), <<InvokeHostFunction(None)>>) :
        fp \in {f \in Footprints : Len(f.read_only) + Len(f.read_write) <= MaxFootprint}}
    \cup {Envelope(ext, ops) : ext \in {V0, V1(HelloFootprint)}, ops \in OperationLists}

\* substitution maps: contract id -> new code
SubstitutionMaps ==
    {<<>>} \cup {[h \in {c} |-> "wasm_m"] : c \in Hashes}

(***************************************************************************)
(* lib.rs: RetroshadesExecution::new, build_from_envelope_and_meta,        *)
(* retroshade, retroshade_recording                                        *)
(***************************************************************************)
\* RetroshadesExecution::new
New ==
    /\ target_pre_execution_state = <<>>
    /\ host_function = None
    /\ auth_entries = <<>>
    /\ resources = None
    /\ source_account = None

\* a variant of StageAfter that substitutes before it rewinds
StageAfterSubstituteFirst(stage, res) ==
    CASE stage = "build_current_state" ->
            IF res.type = "Ok" THEN "replace_binaries" ELSE "idle"
      [] stage = "replace_binaries" ->
            IF res.type = "Ok" THEN "state_reset_to_pre_execution" ELSE "idle"
      [] stage = "state_reset_to_pre_execution" -> "idle"

\* the stage build_from_envelope_and_meta runs after a stage returned res;
\* "idle" is the return to the caller
StageAfter(stage, res) ==
    CASE stage = "build_current_state" ->
            IF res.type = "Ok" THEN "state_reset_to_pre_execution" ELSE "idle"
      [] stage = "state_reset_to_pre_execution" ->
            IF res.type = "Ok" THEN "replace_binaries" ELSE "idle"
      [] stage = "replace_binaries" -> "idle"

\* no InternalSnapshot has been made
NoSnapshot ==
    /\ snapshot = [inner_source |-> <<>>, target_pre_execution_state |-> <<>>,
                   force_remove |-> <<>>]
    /\ get_key = None
    /\ get_result = [type |-> "New"]
    /\ inner_calls = <<>>

\* no value has been converted
NoConversion ==
    /\ scval = None
    /\ recursion_depth = 0
    /\ depth_in = 0
    /\ converted = None
    /\ calls = 0

\* no export record is waiting and nothing has been packed
NoExport ==
    /\ retroshades = <<>>
    /\ packed = None

Init ==
    /\ New
    /\ NoSnapshot /\ NoConversion /\ NoExport
    /\ pc = "idle"
    /\ tx_envelope = None
    /\ tx_meta = <<>>
    /\ mercury_contracts = <<>>
    /\ result = [type |-> "New"]
    /\ stages = <<>>
    /\ pre_state = <<>>
    /\ executor_input = None
    /\ ledger_pre \in Ledgers
    /\ ledger = ledger_pre
    /\ env_pc = "pre"

\* the ledger applies the transaction and records its meta
ExecuteTransaction ==
    /\ env_pc = "pre"
    /\ \E plan \in Plans(ledger) :
          /\ ledger' = ApplyPlan(ledger, plan)
          /\ tx_meta' = <<[changes |-> ChangeLog(ledger, plan, 1)]>>
    /\ env_pc' = "post"
    /\ UNCHANGED <<objvars, pc, tx_envelope, mercury_contracts, result, stages,
                   pre_state, executor_input, ledger_pre, snapvars, convvars,
                   packvars>>

\* the keys an envelope allows its transaction to write: the read_write part of
\* a Soroban footprint
WriteKeys(envelope) ==
    IF envelope.tx.ext.type = "V1"
    THEN Range(envelope.tx.ext.resources.footprint.read_write)
    ELSE {}

\* build_from_envelope_and_meta is called on the new object with the envelope of
\* the executed transaction (every entry the transaction wrote is under a
\* read_write key of its footprint) and runs its first stage,
\* build_current_state, against a snapshot source that answers from the ledger
CallBuildCurrentState ==
    /\ env_pc = "post"
    /\ pc = "idle"
    /\ stages = <<>>
    /\ \E envelope \in Envelopes, contracts \in SubstitutionMaps :
          LET r == BuildCurrentState(Self, LedgerSnapshot(ledger), envelope)
          IN  /\ {k \in Keys : ledger[k] # ledger_pre[k]} \subseteq WriteKeys(envelope)
              /\ target_pre_execution_state' = r.self.target_pre_execution_state
              /\ host_function' = r.self.host_function
              /\ auth_entries' = r.self.auth_entries
              /\ resources' = r.self.resources
              /\ source_account' = r.self.source_account
              /\ result' = r.result
              /\ pc' = StageAfter("build_current_state", r.result)
              /\ mercury_contracts' = contracts
              /\ tx_envelope' = Some(envelope)
              /\ stages' = <<[stage |-> "build_current_state", result |-> r.result]>>
    /\ pre_state' = target_pre_execution_state
    /\ executor_input' = None
    /\ UNCHANGED <<tx_meta, envvars, snapvars, convvars, packvars>>

CallStateResetToPreExecution ==
    /\ pc = "state_reset_to_pre_execution"
    /\ LET r == StateResetToPreExecution(target_pre_execution_state, tx_meta)
       IN  /\ target_pre_execution_state' = r.state
           /\ result' = r.result
           /\ pc' = StageAfter("state_reset_to_pre_execution", r.result)
    /\ stages' = Append(stages, [stage |-> "state_reset_to_pre_execution",
                                  result |-> result'])
    /\ pre_state' = target_pre_execution_state
    /\ UNCHANGED <<host_function, auth_entries, resources, source_account,
                   tx_envelope, tx_meta, mercury_contracts, executor_input, envvars,
                   snapvars, convvars, packvars>>

CallReplaceBinaries ==
    /\ pc = "replace_binaries"
    /\ LET r == ReplaceBinaries(target_pre_execution_state, mercury_contracts)
       IN  /\ target_pre_execution_state' = r.state
           /\ result' = r.result
           /\ pc' = StageAfter("replace_binaries", r.result)
    /\ stages' = Append(stages, [stage |-> "replace_binaries", result |-> result'])
    /\ pre_state' = target_pre_execution_state
    /\ UNCHANGED <<host_function, auth_entries, resources, source_account,
                   tx_envelope, tx_meta, mercury_contracts, executor_input, envvars,
                   snapvars, convvars, packvars>>

\* a variant of Retroshade that moves the working set out of the object instead
\* of cloning it
RetroshadeTakesState ==
    /\ pc = "idle"
    /\ IF host_function = None \/ resources = None \/ source_account = None
       THEN /\ result' = [type |-> "MissingContext"]
            /\ executor_input' = None
            /\ UNCHANGED target_pre_execution_state
       ELSE /\ executor_input' =
                   Some([mode |-> "enforcing",
                         host_function |-> host_function[1],
                         resources |-> resources[1],
                         source_account |-> source_account[1],
                         auth_entries |-> auth_entries,
                         entries |-> target_pre_execution_state])
            /\ result' \in {[type |-> "Ok"], [type |-> "SVMHost"]}
            /\ target_pre_execution_state' = <<>>
    /\ pre_state' = target_pre_execution_state
    /\ UNCHANGED <<host_function, auth_entries, resources, source_account, pc,
                   tx_envelope, tx_meta, mercury_contracts, stages, envvars, snapvars,
                   convvars, packvars>>

\* retroshade(): the three ok_or(MissingContext)? in argument order, then
\* execute_svm, whose outcome is the executor's business
Retroshade ==
    /\ pc = "idle"
    /\ IF host_function = None \/ resources = None \/ source_account = None
       THEN /\ result' = [type |-> "MissingContext"]
            /\ executor_input' = None
       ELSE /\ executor_input' =
                   Some([mode |-> "enforcing",
                         host_function |-> host_function[1],
                         resources |-> resources[1],
                         source_account |-> source_account[1],
                         auth_entries |-> auth_entries,
                         entries |-> target_pre_execution_state])
            /\ result' \in {[type |-> "Ok"], [type |-> "SVMHost"]}
    /\ pre_state' = target_pre_execution_state
    /\ UNCHANGED <<objvars, pc, tx_envelope, tx_meta, mercury_contracts, stages,
                   envvars, snapvars, convvars, packvars>>

\* retroshade_recording(): needs the host function and the source account only
RetroshadeRecording ==
    /\ pc = "idle"
    /\ IF host_function = None \/ source_account = None
       THEN /\ result' = [type |-> "MissingContext"]
            /\ executor_input' = None
       ELSE /\ executor_input' =
                   Some([mode |-> "recording",
                         host_function |-> host_function[1],
                         source_account |-> source_account[1]])
            /\ result' \in {[type |-> "Ok"], [type |-> "SVMHost"]}
    /\ pre_state' = target_pre_execution_state
    /\ UNCHANGED <<objvars, pc, tx_envelope, tx_meta, mercury_contracts, stages,
                   envvars, snapvars, convvars, packvars>>

Next ==
    \/ ExecuteTransaction
    \/ CallBuildCurrentState
    \/ CallStateResetToPreExecution
    \/ CallReplaceBinaries
    \/ Retroshade
    \/ RetroshadeRecording

Spec == Init /\ [][Next]_vars

TypeOK ==
    /\ pc \in {"idle", "state_reset_to_pre_execution", "replace_binaries"}
    /\ env_pc \in {"pre", "post"}
    /\ Len(host_function) <= 1 /\ Len(resources) <= 1 /\ Len(source_account) <= 1
    /\ WellKeyed(ledger) /\ WellKeyed(ledger_pre)

(***************************************************************************)
(* Properties of the replay of a recorded transaction (Spec)               *)
(***************************************************************************)
EntriesOf(state) == [i \in 1..Len(state) |-> state[i][1]]

DeclaredFootprint == resources[1].footprint.read_only \o resources[1].footprint.read_write

BuildRan == Len(stages) >= 1

BuildResult == stages[1].result.type

\* P's entries for the keys of the footprint, in footprint order
PreExecutionEntries ==
    LET InP(k) == IsSome(ledger_pre[k])
        present == SelectSeq(DeclaredFootprint, InP)
    IN  [i \in 1..Len(present) |-> ledger_pre[present[i]][1][1]]

\* C1: after build_current_state against the post-execution ledger and
\* state_reset_to_pre_execution with the transaction's change log, the entries of
\* the working set are exactly the pre-execution entries of the footprint keys.
C1_RewindRestoresPreExecution ==
    (Len(stages) >= 2 /\ stages[2].stage = "state_reset_to_pre_execution")
        => EntriesOf(IF Len(stages) = 2 THEN target_pre_execution_state ELSE pre_state)
              = PreExecutionEntries

\* C4: on a new object, when the snapshot source answers every footprint key,
\* build_current_state succeeds and the working set is the sequence of the
\* source's answers for read_only then read_write; its derived keys are the
\* footprint's keys.
C4_BuildMatchesFootprint ==
    (/\ Len(stages) = 1
     /\ BuildResult # "NotSorobanTx"
     /\ \A k \in Range(DeclaredFootprint) : IsSome(ledger[k]))
        => /\ BuildResult = "Ok"
           /\ Len(target_pre_execution_state) = Len(DeclaredFootprint)
           /\ \A i \in 1..Len(DeclaredFootprint) :
                 target_pre_execution_state[i] = ledger[DeclaredFootprint[i]][1]
           /\ {LedgerKeyOf(target_pre_execution_state[i][1]) :
                 i \in 1..Len(target_pre_execution_state)} = Range(DeclaredFootprint)

\* a build over one read-only and one different read-write key succeeded
C4_Witness ==
    /\ Len(stages) = 1
    /\ BuildResult = "Ok"
    /\ Len(resources[1].footprint.read_only) = 1
    /\ Len(resources[1].footprint.read_write) = 1
    /\ resources[1].footprint.read_only # resources[1].footprint.read_write

\* C23: after a successful build_current_state over a footprint of pairwise
\* distinct keys, and after the rewind and the substitution that follow it, no
\* two entries of the working set have the same ledger key.
C23_NoDuplicateKeys ==
    (/\ BuildRan
     /\ BuildResult = "Ok"
     /\ \A i, j \in 1..Len(DeclaredFootprint) :
           i # j => DeclaredFootprint[i] # DeclaredFootprint[j])
        => \A i, j \in 1..Len(target_pre_execution_state) :
              i # j => LedgerKeyOf(target_pre_execution_state[i][1])
                          # LedgerKeyOf(target_pre_execution_state[j][1])

\* C5: when build_current_state fails with EntryNotFound the object holds no
\* partial working set, and retroshade() does not hand one to the executor.
C5_NoPartialWorkingSet ==
    (BuildRan /\ BuildResult = "EntryNotFound")
        => /\ target_pre_execution_state = <<>>
           /\ ~(IsSome(executor_input) /\ executor_input[1].mode = "enforcing")

\* C9: retroshade() invokes the executor only after a reconstruction on the
\* object completed successfully.
C9_ReplayNeedsSuccessfulBuild ==
    (IsSome(executor_input) /\ executor_input[1].mode = "enforcing")
        => (BuildRan /\ BuildResult = "Ok")

\* C10: build_current_state answers NotSorobanTx exactly for the envelopes that
\* lack the V1 extension or whose operation list is not one InvokeHostFunction.
C10_RejectsUnlessSingleInvoke ==
    BuildRan =>
        LET tx == tx_envelope[1].tx
            proper == /\ tx.ext.type = "V1"
                      /\ Len(tx.operations) = 1
                      /\ tx.operations[1].body.type = "InvokeHostFunction"
        IN  (BuildResult = "NotSorobanTx") <=> ~proper

StageOrder == <<"build_current_state", "state_reset_to_pre_execution", "replace_binaries">>

\* an instance record of a contract named in the substitution map that
\* references the code hash h
ReferencedBy(state, contracts, j, h) ==
    /\ state[j][1].type = "ContractData"
    /\ state[j][1].contract.type = "Contract"
    /\ state[j][1].contract.id \in DOMAIN contracts
    /\ state[j][1].key = LedgerKeyContractInstance
    /\ state[j][1].val.type = "ContractInstance"
    /\ state[j][1].val.executable = Wasm(h)

\* C8: build_from_envelope_and_meta runs build_current_state, then
\* state_reset_to_pre_execution, then replace_binaries, a later stage only after
\* the earlier one succeeded; when the call has succeeded every code entry
\* referenced by a rewound instance record of a substituted contract holds the
\* substituted bytes.
C8_StagesInOrder ==
    /\ Len(stages) <= 3
    /\ \A i \in 1..Len(stages) : stages[i].stage = StageOrder[i]
    /\ \A i \in 1..(Len(stages) - 1) : stages[i].result.type = "Ok"
    /\ (pc = "idle" /\ stages # <<>>)
          => (Len(stages) = 3 \/ stages[Len(stages)].result.type # "Ok")
    /\ pc # "idle" => (Len(stages) < 3 /\ pc = StageOrder[Len(stages) + 1])
    /\ (Len(stages) = 3 /\ stages[3].result.type = "Ok")
          => \A i \in 1..Len(target_pre_execution_state) :
                LET code == target_pre_execution_state[i][1]
                    refs == {j \in 1..Len(target_pre_execution_state) :
                                ReferencedBy(target_pre_execution_state,
                                             mercury_contracts, j, code.hash)}
                IN  (code.type = "ContractCode" /\ refs # {})
                       => \E j \in refs :
                             code.code = mercury_contracts[
                                 target_pre_execution_state[j][1].contract.id]

\* the contract was upgraded by the transaction, the rewind restored its
\* instance record and the code it referenced before was substituted
C8_Witness ==
    /\ Len(stages) = 3
    /\ stages[2].result = [type |-> "Ok", value |-> TRUE]
    /\ stages[3].result = [type |-> "Ok", value |-> TRUE]
    /\ IsSome(ledger[InstanceKey])
    /\ ledger[InstanceKey][1][1].val.executable = Wasm(1)
    /\ \E i \in 1..Len(target_pre_execution_state) :
          target_pre_execution_state[i][1] = ContractCode(0, "wasm_m")

(***************************************************************************)
(* build_from_envelope_and_meta on an object that was built before: the    *)
(* earlier call ran against the same ledger with a change log without      *)
(* operations and an empty substitution map, so the object is as its       *)
(* build_current_state left it, after a success or after a failure         *)
(***************************************************************************)
\* the envelopes of the earlier call
EarlierEnvelopes ==
    {Envelope(V1(HelloFootprint), <<InvokeHostFunction(None)>>),
     Envelope(V1([read_only |-> <<CounterKey>>, read_write |-> <<>>]),
              <<InvokeHostFunction(None)>>)}

InitRebuild ==
    /\ NoSnapshot /\ NoConversion /\ NoExport
    /\ ledger_pre \in Ledgers
    /\ ledger = ledger_pre
    /\ env_pc = "post"
    /\ \E earlier \in EarlierEnvelopes :
          LET new == [target_pre_execution_state |-> <<>>, host_function |-> None,
                      auth_entries |-> <<>>, resources |-> None,
                      source_account |-> None]
              built == BuildCurrentState(new, LedgerSnapshot(ledger), earlier).self
          IN  /\ target_pre_execution_state = built.target_pre_execution_state
              /\ host_function = built.host_function
              /\ auth_entries = built.auth_entries
              /\ resources = built.resources
              /\ source_account = built.source_account
    /\ pc = "idle"
    /\ tx_envelope = None
    /\ tx_meta = <<>>
    /\ mercury_contracts = <<>>
    /\ result = [type |-> "New"]
    /\ stages = <<>>
    /\ pre_state = <<>>
    /\ executor_input = None

NextRebuild ==
    \/ CallBuildCurrentState
    \/ CallStateResetToPreExecution
    \/ CallReplaceBinaries

SpecRebuild == InitRebuild /\ [][NextRebuild]_vars

\* C26: after a successful build_from_envelope_and_meta, also on an object that
\* was built before, the working set holds the entries retrieved for that
\* call's footprint, one per footprint key in footprint order, and nothing
\* else.
C26_WorkingSetStartsEmpty ==
    (Len(stages) = 3 /\ \A n \in 1..3 : stages[n].result.type = "Ok")
        => /\ Len(target_pre_execution_state) = Len(DeclaredFootprint)
           /\ \A i \in 1..Len(target_pre_execution_state) :
                 LedgerKeyOf(target_pre_execution_state[i][1])
                    \in Range(DeclaredFootprint)

(***************************************************************************)
(* state_reset_to_pre_execution on its own: the working set is drawn from  *)
(* the entries a family holds after the execution, the change log from the *)
(* entries it logs; a family has one matched variant with two identities,  *)
(* and an entry of a variant the engine does not match                     *)
(***************************************************************************)
MatchedVariants == {"ContractCode", "ContractData", "Trustline", "Account"}

RewindFamilies ==
    {[held |-> {ContractCode(0, "wasm_b"), ContractCode(1, "wasm_a"), Ttl(0, 1)},
      logged |-> {ContractCode(0, "wasm_a"), ContractCode(0, "wasm_b"),
                  ContractCode(1, "wasm_a")}],
     [held |-> {ContractData(ContractAddress(0), Symbol("k"), "Persistent", U32(2)),
                ContractData(ContractAddress(0), Symbol("k"), "Temporary", U32(1)),
                ContractData(ContractAddress(1), Symbol("k"), "Persistent", U32(1)),
                Ttl(0, 1)},
      logged |-> {ContractData(ContractAddress(0), Symbol("k"), "Persistent", U32(1)),
                  ContractData(ContractAddress(0), Symbol("k"), "Persistent", U32(2)),
                  ContractData(ContractAddress(1), Symbol("k"), "Persistent", U32(1))}],
     [held |-> {Trustline("USD", "a", 2), Trustline("EUR", "a", 1),
                Trustline("USD", "b", 1)},
      logged |-> {Trustline("USD", "a", 1), Trustline("USD", "a", 2),
                  Trustline("EUR", "a", 1)}],
     [held |-> {Account("a", 2), Account("b", 1), Trustline("USD", "a", 1)},
      logged |-> {Account("a", 1), Account("a", 2), Trustline("USD", "a", 1)}]}

\* the liveness horizon the ledger keeps for an entry
HorizonFor(e) ==
    CASE e.type = "ContractCode" -> Some(500)
      [] e.type = "ContractData" ->
            IF e.durability = "Persistent" THEN Some(400) ELSE Some(300)
      [] OTHER -> None

\* process_operation does not read the entry of an Updated change nor the key of
\* a Removed one, so one of each is drawn
Changes(family) ==
    {State(e) : e \in family.logged} \cup {Created(e) : e \in family.logged}
    \cup {Updated(Ttl(0, 2)), Removed([type |-> "Ttl", key_hash |-> 0])}

\* a change log of one operation, or the same changes split over two operations
Metas(family) ==
    LET logs == SeqsUpTo(Changes(family), MaxLog)
    IN  {<<[changes |-> log]>> : log \in logs}
        \cup UNION {{<<[changes |-> SubSeq(log, 1, i)],
                       [changes |-> SubSeq(log, i + 1, Len(log))]>> :
                        i \in 1..(Len(log) - 1)} : log \in logs}
        \cup {<<>>}

EmptyLedger == [k \in Keys |-> None]

\* the object in the middle of build_from_envelope_and_meta, about to run stage
StageInit(stage) ==
    /\ NoSnapshot /\ NoConversion /\ NoExport
    /\ host_function = Some("invoke_t")
    /\ auth_entries = <<"auth_t">>
    /\ resources = Some([footprint |-> [read_only |-> <<>>, read_write |-> <<>>]])
    /\ source_account = Some(AccountIdOf(TxSource))
    /\ pc = stage
    /\ tx_envelope = None
    /\ result = [type |-> "Ok"]
    /\ stages = <<>>
    /\ pre_state = <<>>
    /\ executor_input = None
    /\ ledger_pre = EmptyLedger
    /\ ledger = EmptyLedger
    /\ env_pc = "post"

InitRewind ==
    /\ StageInit("state_reset_to_pre_execution")
    /\ mercury_contracts = <<>>
    /\ \E family \in RewindFamilies :
          /\ target_pre_execution_state \in
                SeqsUpTo({<<e, HorizonFor(e)>> : e \in family.held}, MaxRewindState)
          /\ tx_meta \in Metas(family)

NextRewind == CallStateResetToPreExecution

SpecRewind == InitRewind /\ [][NextRewind]_vars

(***************************************************************************)
(* replace_binaries on its own                                             *)
(***************************************************************************)
InstanceRecord(c, exe) ==
    ContractData(ContractAddress(c), LedgerKeyContractInstance, "Persistent",
                 ContractInstance(exe))

ReplaceEntries ==
    {ContractCode(0, "wasm_a"), ContractCode(1, "wasm_a"),
     InstanceRecord(0, Wasm(0)), InstanceRecord(0, Wasm(1)),
     InstanceRecord(1, Wasm(0)), InstanceRecord(0, StellarAsset),
     ContractData(ContractAddress(0), Symbol("k"), "Persistent",
                  ContractInstance(Wasm(1))),
     ContractData(AccountAddress("a"), Symbol("k"), "Persistent", U32(1)),
     Account("a", 1)}

\* every map from some contract ids to new code
AllSubstitutionMaps ==
    UNION {[d -> {"wasm_m", "wasm_n"}] : d \in SUBSET Hashes}

InitReplace ==
    /\ StageInit("replace_binaries")
    /\ tx_meta = <<>>
    /\ target_pre_execution_state \in
          SeqsUpTo({<<e, HorizonFor(e)>> : e \in ReplaceEntries}, MaxState)
    /\ mercury_contracts \in AllSubstitutionMaps

NextReplace == CallReplaceBinaries

SpecReplace == InitReplace /\ [][NextReplace]_vars

(***************************************************************************)
(* Properties of state_reset_to_pre_execution (SpecRewind)                 *)
(***************************************************************************)
RewindRan == Len(stages) = 1 /\ stages[1].stage = "state_reset_to_pre_execution"

\* the change log is one operation with exactly the given kinds of change
LogIs(kinds) ==
    /\ Len(tx_meta) = 1
    /\ Len(tx_meta[1].changes) = Len(kinds)
    /\ \A i \in 1..Len(kinds) : tx_meta[1].changes[i].type = kinds[i]

HoldsKey(state, key) == \E i \in 1..Len(state) : LedgerKeyOf(state[i][1]) = key

\* C2: after the rewind of a change log [State(e), Updated(_)], every
\* working-set entry that had e's key is e, with the horizon it had before.
C2_UpdatedRestoresState ==
    (RewindRan /\ LogIs(<<"State", "Updated">>)
               /\ tx_meta[1].changes[1].entry.type \in MatchedVariants)
        => LET e == tx_meta[1].changes[1].entry
           IN  /\ Len(target_pre_execution_state) = Len(pre_state)
               /\ \A i \in 1..Len(pre_state) :
                     LedgerKeyOf(pre_state[i][1]) = LedgerKeyOf(e)
                        => target_pre_execution_state[i] = <<e, pre_state[i][2]>>

\* an entry that carried a horizon and another value under e's key was overwritten
C2_Witness ==
    /\ RewindRan /\ LogIs(<<"State", "Updated">>)
    /\ \E i \in 1..Len(pre_state) :
          /\ LedgerKeyOf(pre_state[i][1]) = LedgerKeyOf(tx_meta[1].changes[1].entry)
          /\ pre_state[i][1] # tx_meta[1].changes[1].entry
          /\ IsSome(pre_state[i][2])
          /\ target_pre_execution_state[i][1] = tx_meta[1].changes[1].entry

AppliedStates(meta) ==
    UNION {{meta[o].changes[j].entry :
              j \in {j \in 1..Len(meta[o].changes) :
                       /\ meta[o].changes[j].type = "State"
                       /\ \E k \in (j + 1)..Len(meta[o].changes) :
                             /\ meta[o].changes[k].type = "Updated"
                             /\ \A m \in (j + 1)..(k - 1) :
                                   meta[o].changes[m].type \notin {"State", "Updated"}}} :
           o \in 1..Len(meta)}

\* C11: state_reset_to_pre_execution returns true exactly when an entry was
\* removed (the working set is shorter) or overwritten (an applied State entry
\* matched an entry, also when it wrote the value the entry already had); with
\* no operation, or only operations without changes, the working set is
\* identical afterwards and the flag is false.
C11_ChangedIffTouched ==
    RewindRan =>
        /\ result.type = "Ok"
        /\ result.value =
              (\/ Len(target_pre_execution_state) < Len(pre_state)
               \/ \E e \in AppliedStates(tx_meta) : \E i \in 1..Len(pre_state) :
                     UpdateMatches(pre_state[i][1], e))
        /\ target_pre_execution_state # pre_state => result.value
        /\ (\A o \in 1..Len(tx_meta) : tx_meta[o].changes = <<>>)
              => /\ target_pre_execution_state = pre_state
                 /\ result.value = FALSE

\* an entry was overwritten with the value it already had: the flag is true and
\* the working set reads the same
C11_Witness ==
    /\ RewindRan
    /\ result = [type |-> "Ok", value |-> TRUE]
    /\ pre_state # <<>>
    /\ target_pre_execution_state = pre_state

\* the State entry an Updated at position k of a change list applies: the
\* nearest State before it, unless an Updated lies in between
PendingAt(changes, k) ==
    LET prior == {j \in 1..(k - 1) : changes[j].type \in {"State", "Updated"}}
    IN  IF prior = {}
        THEN None
        ELSE LET j == CHOOSE j \in prior : \A m \in prior : m <= j
             IN  IF changes[j].type = "State" THEN Some(changes[j].entry) ELSE None

\* the working set after the changes of one operation from position k on
RECURSIVE ReplayFrom(_, _, _)
ReplayFrom(state, changes, k) ==
    IF k > Len(changes)
    THEN state
    ELSE LET change == changes[k]
             after ==
                CASE change.type = "Updated" /\ IsSome(PendingAt(changes, k)) ->
                        UpdateEntries(state, PendingAt(changes, k)[1], FALSE).state
                  [] change.type = "Created" ->
                        RemoveEntry(state, change.entry, FALSE).state
                  [] OTHER -> state
         IN  ReplayFrom(after, changes, k + 1)

RECURSIVE ReplayOperations(_, _, _)
ReplayOperations(state, meta, o) ==
    IF o > Len(meta)
    THEN state
    ELSE ReplayOperations(ReplayFrom(state, meta[o].changes, 1), meta, o + 1)

IdentityOf(e) ==
    CASE e.type = "ContractCode" -> <<"ContractCode", e.hash>>
      [] e.type = "ContractData" -> <<"ContractData", e.contract, e.key>>
      [] e.type = "Trustline" -> <<"Trustline", e.asset, e.account_id>>
      [] e.type = "Account" -> <<"Account", e.account_id>>
      [] OTHER -> <<"Unmatched">>

SameIdentity(e, p) == e.type \in MatchedVariants /\ IdentityOf(e) = IdentityOf(p)

\* C24: after the rewind of [State(p), Updated(_)] the working set has its
\* length and order; the entries of p's variant and identity hold p, every
\* other entry is as it was.
C24_UpdateFrame ==
    (RewindRan /\ LogIs(<<"State", "Updated">>)) =>
        LET p == tx_meta[1].changes[1].entry
        IN  /\ Len(target_pre_execution_state) = Len(pre_state)
            /\ \A i \in 1..Len(pre_state) :
                  IF SameIdentity(pre_state[i][1], p)
                  THEN target_pre_execution_state[i][1] = p
                  ELSE target_pre_execution_state[i] = pre_state[i]

\* p was written over an entry that stood next to an entry of the same variant
\* and another identity, which was left as it was
C24_Witness ==
    /\ RewindRan /\ LogIs(<<"State", "Updated">>)
    /\ \E i, j \in 1..Len(pre_state) :
          /\ SameIdentity(pre_state[i][1], tx_meta[1].changes[1].entry)
          /\ pre_state[i][1] # tx_meta[1].changes[1].entry
          /\ target_pre_execution_state[i][1] = tx_meta[1].changes[1].entry
          /\ pre_state[j][1].type = tx_meta[1].changes[1].entry.type
          /\ ~SameIdentity(pre_state[j][1], tx_meta[1].changes[1].entry)
          /\ target_pre_execution_state[j] = pre_state[j]

\* the change log without its changes of kinds other than State, Updated and
\* Created
StripOtherKinds(meta) ==
    [o \in 1..Len(meta) |->
        [changes |-> SelectSeq(meta[o].changes,
                               LAMBDA c : c.type \in {"State", "Updated", "Created"})]]

\* the change log with the payload of every Updated change replaced
WithUpdatedPayload(meta, e) ==
    [o \in 1..Len(meta) |->
        [changes |-> [k \in 1..Len(meta[o].changes) |->
                         IF meta[o].changes[k].type = "Updated"
                         THEN Updated(e) ELSE meta[o].changes[k]]]]

\* entries an Updated change could carry: those of the working set and of the log
OtherPayloads ==
    {pre_state[i][1] : i \in 1..Len(pre_state)}
    \cup UNION {{tx_meta[o].changes[k].entry :
                    k \in {k \in 1..Len(tx_meta[o].changes) :
                             tx_meta[o].changes[k].type \in {"State", "Created"}}} :
                o \in 1..Len(tx_meta)}

MatchesCreated(e, created) ==
    /\ e.type = "ContractData"
    /\ created.type = "ContractData"
    /\ e.contract = created.contract
    /\ e.key = created.key

\* every removal of the second loop is in bounds and takes out the entry the
\* first loop had found at the collected index
RECURSIVE RemovalsOnTarget(_, _, _, _)
RemovalsOnTarget(state, to_delete, shift, original) ==
    \/ to_delete = <<>>
    \/ LET target_idx_adjusted == Head(to_delete) - shift
       IN  /\ target_idx_adjusted >= 0
           /\ target_idx_adjusted < Len(state)
           /\ state[target_idx_adjusted + 1] = original[Head(to_delete) + 1]
           /\ RemovalsOnTarget(RemoveAt(state, target_idx_adjusted), Tail(to_delete),
                               shift + 1, original)

C29_MalformedIffNoWasmReference ==
    (Len(stages) = 1 /\ stages[1].stage = "replace_binaries") =>
        LET OfNamedContract(e) == /\ e.type = "ContractData"
                                  /\ e.contract.type = "Contract"
                                  /\ e.contract.id \in DOMAIN mercury_contracts
            NoWasmReference(e) == /\ OfNamedContract(e)
                                  /\ e.key = LedgerKeyContractInstance
                                  /\ e.val.type = "ContractInstance"
                                  /\ e.val.executable.type # "Wasm"
        IN  /\ (result.type = "MalformedXdr")
                  <=> (\E i \in 1..Len(pre_state) : NoWasmReference(pre_state[i][1]))
            /\ (\A i \in 1..Len(pre_state) : ~OfNamedContract(pre_state[i][1]))
                  => result.type # "MalformedXdr"

(***************************************************************************)
(* Properties of replace_binaries (SpecReplace)                            *)
(***************************************************************************)
ReplaceRan == Len(stages) = 1 /\ stages[1].stage = "replace_binaries"

IsInstanceRecord(data) ==
    /\ data.type = "ContractData"
    /\ data.key = LedgerKeyContractInstance
    /\ data.val.type = "ContractInstance"

\* the code hashes that instance records of the working set reference
ReferencedHashes(state) ==
    {state[j][1].val.executable.hash :
        j \in {i \in 1..Len(state) : /\ IsInstanceRecord(state[i][1])
                                     /\ state[i][1].val.executable.type = "Wasm"}}

Targets(state, contracts) ==
    {i \in 1..Len(state) :
        /\ state[i][1].type = "ContractCode"
        /\ \E j \in 1..Len(state) : ReferencedBy(state, contracts, j, state[i][1].hash)}

NewInternalSnapshot(inner, state, removed) ==
    [inner_source |-> inner, target_pre_execution_state |-> state,
     force_remove |-> removed]

\* a variant of InternalSnapshotGet that looks at force_remove before the
\* override list
InternalSnapshotGetForceFirst(self, key) ==
    LET hits == {i \in 1..Len(self.target_pre_execution_state) :
                    LedgerKeyOf(self.target_pre_execution_state[i][1]) = key}
        first == CHOOSE i \in hits : \A j \in hits : i <= j
    IN  IF \E i \in 1..Len(self.force_remove) : LedgerKeyOf(self.force_remove[i]) = key
        THEN [result |-> [type |-> "Ok", val |-> None], inner_calls |-> <<>>]
        ELSE IF hits # {}
        THEN [result |-> [type |-> "Ok",
                          val |-> Some(self.target_pre_execution_state[first])],
              inner_calls |-> <<>>]
        ELSE [result |-> self.inner_source[key], inner_calls |-> <<key>>]

\* a variant of InternalSnapshotGet that does not look at force_remove
InternalSnapshotGetNoForce(self, key) ==
    LET hits == {i \in 1..Len(self.target_pre_execution_state) :
                    LedgerKeyOf(self.target_pre_execution_state[i][1]) = key}
        first == CHOOSE i \in hits : \A j \in hits : i <= j
    IN  IF hits # {}
        THEN [result |-> [type |-> "Ok",
                          val |-> Some(self.target_pre_execution_state[first])],
              inner_calls |-> <<>>]
        ELSE [result |-> self.inner_source[key], inner_calls |-> <<key>>]

\* InternalSnapshot::get: the result, and the keys it asked inner_source for
InternalSnapshotGet(self, key) ==
    LET hits == {i \in 1..Len(self.target_pre_execution_state) :
                    LedgerKeyOf(self.target_pre_execution_state[i][1]) = key}
        first == CHOOSE i \in hits : \A j \in hits : i <= j
    IN  IF hits # {}
        THEN [result |-> [type |-> "Ok",
                          val |-> Some(self.target_pre_execution_state[first])],
              inner_calls |-> <<>>]
        ELSE IF \E i \in 1..Len(self.force_remove) :
                   LedgerKeyOf(self.force_remove[i]) = key
        THEN [result |-> [type |-> "Ok", val |-> None], inner_calls |-> <<>>]
        ELSE [result |-> self.inner_source[key], inner_calls |-> <<key>>]

TtlKey == [type |-> "Ttl", key_hash |-> 0]

\* the keys get is asked for
SnapshotKeys == {CodeKey(0), CounterKey, TempCounterKey, TtlKey}

\* the entries the override and force-absent lists are drawn from: two values
\* under one key, the same logical key in the other durability class, a code
\* entry, and an entry of a variant get derives no key from
SnapshotEntries ==
    {ContractCode(0, "wasm_m"),
     ContractData(ContractAddress(0), Symbol("k"), "Persistent", U32(1)),
     ContractData(ContractAddress(0), Symbol("k"), "Persistent", U32(2)),
     ContractData(ContractAddress(0), Symbol("k"), "Temporary", U32(1)),
     Ttl(0, 1)}

\* the horizon captured with an override entry; it differs from the horizon
\* the backing source keeps
CapturedHorizon(e) ==
    CASE e.type = "ContractCode" -> Some(700)
      [] e.type = "ContractData" -> IF e.val = U32(1) THEN Some(600) ELSE None
      [] OTHER -> None

\* what the backing source holds under a key
BackingEntry(k) ==
    CASE k.type = "ContractCode" -> <<ContractCode(k.hash, "wasm_a"), Some(500)>>
      [] k.type = "ContractData" ->
            <<ContractData(k.contract, k.key, k.durability, U32(3)), Some(400)>>
      [] OTHER -> <<Ttl(k.key_hash, 9), None>>

\* backing sources: one that holds every key, one that holds none, one that
\* fails
InnerSources ==
    {[k \in SnapshotKeys |-> [type |-> "Ok", val |-> Some(BackingEntry(k))]],
     [k \in SnapshotKeys |-> [type |-> "Ok", val |-> None]],
     [k \in SnapshotKeys |-> [type |-> "SVMHost"]]}

\* the execution object and the ledger take no part
Quiet ==
    /\ New
    /\ pc = "idle"
    /\ tx_envelope = None
    /\ tx_meta = <<>>
    /\ mercury_contracts = <<>>
    /\ result = [type |-> "New"]
    /\ stages = <<>>
    /\ pre_state = <<>>
    /\ executor_input = None
    /\ ledger_pre = EmptyLedger
    /\ ledger = EmptyLedger
    /\ env_pc = "post"

InitSnapshot ==
    /\ Quiet /\ NoConversion /\ NoExport
    /\ \E inner \in InnerSources :
       \E state \in SeqsUpTo({<<e, CapturedHorizon(e)>> : e \in SnapshotEntries},
                              MaxOverride) :
       \E removed \in SeqsUpTo(SnapshotEntries, MaxForceRemove) :
          snapshot = NewInternalSnapshot(inner, state, removed)
    /\ get_key = None
    /\ get_result = [type |-> "New"]
    /\ inner_calls = <<>>

Get ==
    /\ get_key = None
    /\ \E key \in SnapshotKeys :
          LET r == InternalSnapshotGet(snapshot, key)
          IN  /\ get_key' = Some(key)
              /\ get_result' = r.result
              /\ inner_calls' = r.inner_calls
    /\ UNCHANGED <<objvars, pc, tx_envelope, tx_meta, mercury_contracts, result,
                   stages, pre_state, executor_input, envvars, snapshot, convvars,
                   packvars>>

NextSnapshot == Get

SpecSnapshot == InitSnapshot /\ [][NextSnapshot]_vars

(***************************************************************************)
(* Properties of InternalSnapshot::get (SpecSnapshot)                      *)
(***************************************************************************)
\* the positions of the override list whose entry has the key
Overrides(key) ==
    {i \in 1..Len(snapshot.target_pre_execution_state) :
        LedgerKeyOf(snapshot.target_pre_execution_state[i][1]) = key}

ForcedAbsent(key) ==
    \E i \in 1..Len(snapshot.force_remove) : LedgerKeyOf(snapshot.force_remove[i]) = key

\* C12: for a key that is the derived key of an override entry, get returns the
\* first such entry with the horizon captured for it, whatever the force-absent
\* list and the backing source hold, and does not ask the backing source.
C12_OverrideWins ==
    (IsSome(get_key) /\ Overrides(get_key[1]) # {}) =>
        \E i \in Overrides(get_key[1]) :
           /\ \A j \in Overrides(get_key[1]) : i <= j
           /\ get_result = [type |-> "Ok",
                            val |-> Some(snapshot.target_pre_execution_state[i])]
           /\ inner_calls = <<>>

\* the key has two override entries, is in the force-absent list and the
\* backing source holds it; the first override entry was returned
C12_Witness ==
    /\ IsSome(get_key)
    /\ Cardinality(Overrides(get_key[1])) = 2
    /\ snapshot.target_pre_execution_state[1] # snapshot.target_pre_execution_state[2]
    /\ ForcedAbsent(get_key[1])
    /\ snapshot.inner_source[get_key[1]] = [type |-> "Ok",
                                            val |-> Some(BackingEntry(get_key[1]))]
    /\ get_result = [type |-> "Ok", val |-> Some(snapshot.target_pre_execution_state[1])]

\* C13: for a key without an override entry, get returns Ok(None) without
\* asking the backing source when the key is the derived key of a force-absent
\* entry, and otherwise returns what the backing source returns for the key,
\* errors included.
C13_ForcedAbsentThenBacking ==
    (IsSome(get_key) /\ Overrides(get_key[1]) = {}) =>
        IF ForcedAbsent(get_key[1])
        THEN /\ get_result = [type |-> "Ok", val |-> None]
             /\ inner_calls = <<>>
        ELSE /\ get_result = snapshot.inner_source[get_key[1]]
             /\ inner_calls = <<get_key[1]>>

\* a key the backing source holds was answered None because it is force-absent
C13_Witness ==
    /\ IsSome(get_key)
    /\ Overrides(get_key[1]) = {}
    /\ ForcedAbsent(get_key[1])
    /\ snapshot.inner_source[get_key[1]].type = "Ok"
    /\ IsSome(snapshot.inner_source[get_key[1]].val)
    /\ get_result = [type |-> "Ok", val |-> None]

(***************************************************************************)
(* conversion.rs: ScVal and FromScVal                                      *)
(*                                                                         *)
(* Text and Numeric hold a String, modelled as the sequence of its         *)
(* characters (JSON text as the sequence of its tokens).  Bytes, String    *)
(* and Symbol hold the sequence of their bytes.                             *)
(***************************************************************************)
Bool(b) == [type |-> "Bool", v |-> b]

Void == [type |-> "Void"]

I32(n) == [type |-> "I32", v |-> n]

U64(n) == [type |-> "U64", v |-> n]

I64(n) == [type |-> "I64", v |-> n]

Timepoint(t) == [type |-> "Timepoint", v |-> t]

Duration(d) == [type |-> "Duration", v |-> d]

U128(hi, lo) == [type |-> "U128", v |-> [hi |-> hi, lo |-> lo]]

I128(hi, lo) == [type |-> "I128", v |-> [hi |-> hi, lo |-> lo]]

U256(hi_hi, hi_lo, lo_hi, lo_lo) ==
    [type |-> "U256",
     v |-> [hi_hi |-> hi_hi, hi_lo |-> hi_lo, lo_hi |-> lo_hi, lo_lo |-> lo_lo]]

I256(hi_hi, hi_lo, lo_hi, lo_lo) ==
    [type |-> "I256",
     v |-> [hi_hi |-> hi_hi, hi_lo |-> hi_lo, lo_hi |-> lo_hi, lo_lo |-> lo_lo]]

Bytes(b) == [type |-> "Bytes", v |-> b]

String(s) == [type |-> "String", v |-> s]

\* ScVal::Vec(Option<ScVec>)
Vec(v) == [type |-> "Vec", v |-> v]

\* ScVal::Map(Option<ScMap>), a map being the vector of its entries
Map(m) == [type |-> "Map", v |-> m]

MapEntry(k, v) == [key |-> k, val |-> v]

Error(e) == [type |-> "Error", v |-> e]

Address(addr) == [type |-> "Address", v |-> addr]

LedgerKeyNonce == [type |-> "LedgerKeyNonce"]

\* TypeKind
GenericArray(arr) == [type |-> "GenericArray", v |-> arr]

Text(s) == [type |-> "Text", v |-> s]

Boolean(b) == [type |-> "Boolean", v |-> b]

KindVoid == [type |-> "Void"]

Numeric(s) == [type |-> "Numeric", v |-> s]

FromScVal(dbtype, kind) == [dbtype |-> dbtype, kind |-> kind]

MAX_ALLOWED_RECURSION_DEPTH == 1

RECURSIVE Pow2(_)
Pow2(n) == IF n = 0 THEN 1 ELSE 2 * Pow2(n - 1)

\* BigInt << n
Shl(x, n) == x * Pow2(n)

\* BigInt | BigInt: the bitwise or of two integers in two's complement of
\* unbounded width
RECURSIVE BitOr(_, _)
BitOr(a, b) ==
    IF a = 0 THEN b
    ELSE IF b = 0 THEN a
    ELSE IF a = -1 \/ b = -1 THEN -1
    ELSE (IF a % 2 = 1 \/ b % 2 = 1 THEN 1 ELSE 0) + 2 * BitOr(a \div 2, b \div 2)

\* a variant of i256_to_bigint that reads every limb as signed
i256_to_bigint_all_signed(parts) ==
    LET signed(x) == IF x >= Pow2(LimbBits - 1) THEN x - Pow2(LimbBits) ELSE x
        hi == BitOr(Shl(parts.hi_hi, LimbBits), signed(parts.hi_lo))
        lo == BitOr(Shl(signed(parts.lo_hi), LimbBits), signed(parts.lo_lo))
    IN  BitOr(Shl(hi, 2 * LimbBits), lo)

i256_to_bigint(parts) ==
    LET hi == BitOr(Shl(parts.hi_hi, LimbBits), parts.hi_lo)
        lo == BitOr(Shl(parts.lo_hi, LimbBits), parts.lo_lo)
    IN  BitOr(Shl(hi, 2 * LimbBits), lo)

u256_to_bigint(parts) ==
    LET hi == BitOr(Shl(parts.hi_hi, LimbBits), parts.hi_lo)
        lo == BitOr(Shl(parts.lo_hi, LimbBits), parts.lo_lo)
    IN  BitOr(Shl(hi, 2 * LimbBits), lo)

i128_to_bigint(parts) == BitOr(Shl(parts.hi, LimbBits), parts.lo)

u128_to_bigint(parts) == BitOr(Shl(parts.hi, LimbBits), parts.lo)

DecimalDigit == <<"0", "1", "2", "3", "4", "5", "6", "7", "8", "9">>

RECURSIVE Digits(_)
Digits(n) ==
    IF n < 10
    THEN <<DecimalDigit[n + 1]>>
    ELSE Digits(n \div 10) \o <<DecimalDigit[(n % 10) + 1]>>

\* to_string of an integer
IntToString(n) == IF n < 0 THEN <<"-">> \o Digits(0 - n) ELSE Digits(n)

\* what a panic! leaves instead of a String
Panic == <<"panic!">>

\* a variant of num_to_string without the arm for U128
num_to_string_without_u128(parts) ==
    CASE parts.type = "I256" -> IntToString(i256_to_bigint(parts.v))
      [] parts.type = "U256" -> IntToString(u256_to_bigint(parts.v))
      [] parts.type = "I128" -> IntToString(i128_to_bigint(parts.v))
      [] OTHER -> Panic

num_to_string(parts) ==
    CASE parts.type = "I256" -> IntToString(i256_to_bigint(parts.v))
      [] parts.type = "U256" -> IntToString(u256_to_bigint(parts.v))
      [] parts.type = "I128" -> IntToString(i128_to_bigint(parts.v))
      [] parts.type = "U128" -> IntToString(u128_to_bigint(parts.v))
      [] OTHER -> Panic

HexDigit == <<"0", "1", "2", "3", "4", "5", "6", "7", "8", "9",
              "a", "b", "c", "d", "e", "f">>

\* a variant of HexEncode that writes the low nibble first
RECURSIVE HexEncodeLowFirst(_)
HexEncodeLowFirst(b) ==
    IF b = <<>>
    THEN <<>>
    ELSE <<HexDigit[(Head(b) % 16) + 1], HexDigit[(Head(b) \div 16) + 1]>>
         \o HexEncodeLowFirst(Tail(b))

\* hex::encode
RECURSIVE HexEncode(_)
HexEncode(b) ==
    IF b = <<>>
    THEN <<>>
    ELSE <<HexDigit[(Head(b) \div 16) + 1], HexDigit[(Head(b) % 16) + 1]>>
         \o HexEncode(Tail(b))

\* the bytes strings and symbols are made of, and the character each is
\* displayed as
StringBytes == {49, 95, 97, 98}

CharOf(byte) ==
    CASE byte = 49 -> "1"
      [] byte = 95 -> "_"
      [] byte = 97 -> "a"
      [] byte = 98 -> "b"

\* to_string of an ScString or ScSymbol
StringToString(s) == [i \in 1..Len(s) |-> CharOf(s[i])]

Base32Alphabet == <<"A", "B", "C", "D", "E", "F", "G", "H">>

\* stellar_strkey: the version character, then the payload in base 32
StrKey(version, id) == <<version, Base32Alphabet[id + 1]>>

AddressToString(addr) ==
    CASE addr.type = "Account" -> StrKey("G", addr.id)
      [] addr.type = "Contract" -> StrKey("C", addr.id)

\* the name serde gives a variant
JsonTag(type) ==
    CASE type = "Bool" -> "bool"
      [] type = "Void" -> "void"
      [] type = "Error" -> "error"
      [] type = "U32" -> "u32"
      [] type = "I32" -> "i32"
      [] type = "U64" -> "u64"
      [] type = "I64" -> "i64"
      [] type = "Timepoint" -> "timepoint"
      [] type = "Duration" -> "duration"
      [] type = "U128" -> "u128"
      [] type = "I128" -> "i128"
      [] type = "U256" -> "u256"
      [] type = "I256" -> "i256"
      [] type = "Bytes" -> "bytes"
      [] type = "String" -> "string"
      [] type = "Symbol" -> "symbol"
      [] type = "Vec" -> "vec"
      [] type = "Map" -> "map"
      [] type = "Address" -> "address"
      [] type = "ContractInstance" -> "contract_instance"
      [] type = "LedgerKeyContractInstance" -> "ledger_key_contract_instance"
      [] type = "LedgerKeyNonce" -> "ledger_key_nonce"

Quoted(s) == <<"\"">> \o s \o <<"\"">>

Tagged(type, json) == <<"{", JsonTag(type), ":">> \o json \o <<"}">>

\* serde_json::to_string of an ScVal, of an Option<ScVec> and of an
\* Option<ScMap>
RECURSIVE JsonOfScVal(_), JsonOfElements(_), JsonOfVec(_), JsonOfEntries(_), JsonOfMap(_)
JsonOfScVal(val) ==
    CASE val.type = "Bool" ->
            Tagged(val.type, <<IF val.v THEN "true" ELSE "false">>)
      [] val.type \in {"U32", "I32", "U64", "I64", "Timepoint", "Duration"} ->
            Tagged(val.type, IntToString(val.v))
      [] val.type \in {"U128", "I128"} ->
            Tagged(val.type, <<"{", "hi", ":">> \o IntToString(val.v.hi)
                             \o <<",", "lo", ":">> \o IntToString(val.v.lo) \o <<"}">>)
      [] val.type \in {"U256", "I256"} ->
            Tagged(val.type, <<"{", "hi_hi", ":">> \o IntToString(val.v.hi_hi)
                             \o <<",", "hi_lo", ":">> \o IntToString(val.v.hi_lo)
                             \o <<",", "lo_hi", ":">> \o IntToString(val.v.lo_hi)
                             \o <<",", "lo_lo", ":">> \o IntToString(val.v.lo_lo)
                             \o <<"}">>)
      [] val.type = "Bytes" -> Tagged(val.type, Quoted(HexEncode(val.v)))
      [] val.type \in {"String", "Symbol"} ->
            Tagged(val.type, Quoted(StringToString(val.v)))
      [] val.type = "Address" -> Tagged(val.type, Quoted(AddressToString(val.v)))
      [] val.type = "Error" -> Tagged(val.type, Quoted(<<val.v>>))
      [] val.type = "Vec" -> Tagged(val.type, JsonOfVec(val.v))
      [] val.type = "Map" -> Tagged(val.type, JsonOfMap(val.v))
      [] OTHER -> Quoted(<<JsonTag(val.type)>>)

JsonOfElements(vecm) ==
    IF vecm = <<>> THEN <<>>
    ELSE IF Len(vecm) = 1 THEN JsonOfScVal(Head(vecm))
    ELSE JsonOfScVal(Head(vecm)) \o <<",">> \o JsonOfElements(Tail(vecm))

JsonOfVec(v) ==
    IF v = None THEN <<"null">> ELSE <<"[">> \o JsonOfElements(v[1]) \o <<"]">>

JsonOfEntries(entries) ==
    IF entries = <<>> THEN <<>>
    ELSE LET entry == <<"{", "key", ":">> \o JsonOfScVal(Head(entries).key)
                      \o <<",", "val", ":">> \o JsonOfScVal(Head(entries).val)
                      \o <<"}">>
         IN  IF Len(entries) = 1 THEN entry
             ELSE entry \o <<",">> \o JsonOfEntries(Tail(entries))

JsonOfMap(m) ==
    IF m = None THEN <<"null">> ELSE <<"[">> \o JsonOfEntries(m[1]) \o <<"]">>

\* the *_ARRAY type for the kind of the first element
ArrayType(kind) ==
    CASE kind.type = "Boolean" -> "BOOL_ARRAY"
      [] kind.type = "Numeric" -> "NUMERIC_ARRAY"
      [] kind.type = "Text" -> "TEXT_ARRAY"
      [] OTHER -> "JSON"

\* from_scval(value, recursion_depth): what it returns (ret) and the value it
\* leaves in the counter it borrowed
RECURSIVE from_scval(_, _), ConvertElements(_, _)
from_scval(val, depth) ==
    LET Ret(dbtype, kind) == [ret |-> FromScVal(dbtype, kind), recursion_depth |-> depth]
    IN  CASE val.type = "Bool" -> Ret("BOOL", Boolean(val.v))
          [] val.type = "Void" -> Ret("TEXT", KindVoid)
          [] val.type \in {"U32", "I32", "U64", "I64", "Timepoint", "Duration"} ->
                Ret("NUMERIC", Numeric(IntToString(val.v)))
          [] val.type \in {"U256", "I256", "I128", "U128"} ->
                Ret("NUMERIC", Numeric(num_to_string(val)))
          [] val.type = "Bytes" -> Ret("BYTEA", Text(HexEncode(val.v)))
          [] val.type \in {"String", "Symbol"} ->
                Ret("TEXT", Text(StringToString(val.v)))
          [] val.type = "Vec" ->
                LET entered == depth + 1
                    walked == entered <= MAX_ALLOWED_RECURSION_DEPTH /\ IsSome(val.v)
                    elements == IF walked
                                THEN ConvertElements(val.v[1], entered)
                                ELSE [inner_array |-> <<>>, recursion_depth |-> entered]
                    inner_array == elements.inner_array
                    same == /\ walked
                            /\ inner_array # <<>>
                            /\ \A i \in 1..Len(inner_array) :
                                  inner_array[i].dbtype = inner_array[1].dbtype
                IN  IF same /\ ArrayType(inner_array[1].kind) # "JSON"
                    THEN [ret |-> FromScVal(ArrayType(inner_array[1].kind),
                                            GenericArray(inner_array)),
                          recursion_depth |-> elements.recursion_depth]
                    ELSE [ret |-> FromScVal("JSON", Text(JsonOfVec(val.v))),
                          recursion_depth |-> elements.recursion_depth]
          [] val.type = "Map" -> Ret("JSON", Text(JsonOfMap(val.v)))
          [] val.type = "Error" -> Ret("TEXT", Text(Quoted(<<val.v>>)))
          [] val.type = "Address" -> Ret("TEXT", Text(AddressToString(val.v)))
          [] OTHER -> Ret("TEXT", Text(<<"Invalid">>))

\* the map over the elements of a vector; every call borrows the same counter
ConvertElements(vecm, depth) ==
    IF vecm = <<>>
    THEN [inner_array |-> <<>>, recursion_depth |-> depth]
    ELSE LET first == from_scval(Head(vecm), depth)
             rest == ConvertElements(Tail(vecm), first.recursion_depth)
         IN  [inner_array |-> <<first.ret>> \o rest.inner_array,
              recursion_depth |-> rest.recursion_depth]

\* to_sql of a GenericArray: the items the filter_map of the array's dbtype
\* keeps, in order
ArrayToSql(self) ==
    LET kept == CASE self.dbtype = "BOOL_ARRAY" -> "Boolean"
                  [] self.dbtype = "NUMERIC_ARRAY" -> "Numeric"
                  [] self.dbtype = "TEXT_ARRAY" -> "Text"
        items == SelectSeq(self.kind.v, LAMBDA item : item.kind.type = kept)
    IN  [i \in 1..Len(items) |-> items[i].kind.v]

(***************************************************************************)
(* from_scval on its own: a caller converts a value with a counter that    *)
(* starts at 0 and converts further values with the same counter           *)
(***************************************************************************)
UnsignedLimbs == 0..(Pow2(LimbBits) - 1)

SignedLimbs == (0 - Pow2(LimbBits - 1))..(Pow2(LimbBits - 1) - 1)

BigIntegers ==
    {U128(hi, lo) : hi \in UnsignedLimbs, lo \in UnsignedLimbs}
    \cup {I128(hi, lo) : hi \in SignedLimbs, lo \in UnsignedLimbs}
    \cup {U256(hi_hi, hi_lo, lo_hi, lo_lo) :
            hi_hi \in UnsignedLimbs, hi_lo \in UnsignedLimbs,
            lo_hi \in UnsignedLimbs, lo_lo \in UnsignedLimbs}
    \cup {I256(hi_hi, hi_lo, lo_hi, lo_lo) :
            hi_hi \in SignedLimbs, hi_lo \in UnsignedLimbs,
            lo_hi \in UnsignedLimbs, lo_lo \in UnsignedLimbs}

\* a vector nested three deep
DeepVec == Vec(Some(<<Vec(Some(<<Vec(Some(<<Bool(TRUE)>>))>>))>>))

Scalars ==
    {Bool(TRUE), Bool(FALSE), Void, U32(0), U32(7), I32(0 - 7), U64(10), I64(0 - 10),
     Timepoint(100), Duration(5), Bytes(<<>>), Bytes(<<0, 171>>), Bytes(<<255>>),
     String(<<>>), String(<<97, 98>>), Symbol(<<97>>), Symbol(<<98, 95, 49>>),
     Address(ContractAddress(0)), Address(AccountAddress(1)), Error("contract"),
     Map(None), Map(Some(<<>>)), Map(Some(<<MapEntry(Symbol(<<97>>), U32(7))>>)),
     LedgerKeyContractInstance, ContractInstance(Wasm(0)), LedgerKeyNonce}

\* what the vectors are made of
VecElements ==
    {Bool(TRUE), Bool(FALSE), U32(7), String(<<97, 98>>), Symbol(<<97>>),
     Bytes(<<255>>), Void, Map(Some(<<>>)), Vec(Some(<<U32(7)>>)), LedgerKeyNonce}

Vectors ==
    {Vec(None), DeepVec}
    \cup {Vec(Some(vecm)) : vecm \in SeqsUpTo(VecElements, MaxVecLen)}

ScVals == Scalars \cup BigIntegers \cup Vectors

\* values a caller converts after the first one
LaterScVals == {Bool(TRUE), Vec(Some(<<Bool(TRUE), Bool(FALSE)>>)), Vec(Some(<<>>))}

InitConversion ==
    /\ Quiet /\ NoSnapshot /\ NoExport
    /\ scval \in {Some(val) : val \in ScVals}
    /\ recursion_depth = 0
    /\ depth_in = 0
    /\ converted = None
    /\ calls = 0

\* from_scval(value, &mut recursion_depth)
Call(val) ==
    LET r == from_scval(val, recursion_depth)
    IN  /\ scval' = Some(val)
        /\ depth_in' = recursion_depth
        /\ converted' = Some(r.ret)
        /\ recursion_depth' = r.recursion_depth
        /\ calls' = calls + 1
        /\ UNCHANGED <<objvars, pc, tx_envelope, tx_meta, mercury_contracts, result,
                       stages, pre_state, executor_input, envvars, snapvars, packvars>>

\* the first conversion, with the new counter
Convert ==
    /\ calls = 0
    /\ Call(scval[1])

\* a later conversion with the same counter, of the same value or of another
ConvertAgain ==
    /\ calls >= 1
    /\ calls < MaxCalls
    /\ \E val \in {scval[1]} \cup LaterScVals : Call(val)

NextConversion == Convert \/ ConvertAgain

SpecConversion == InitConversion /\ [][NextConversion]_vars

(***************************************************************************)
(* Properties of from_scval (SpecConversion)                               *)
(***************************************************************************)
\* from_scval has returned from a call that started with the counter at 0
StartedAtZero == calls >= 1 /\ depth_in = 0

\* the conversions of the elements of a top-level vector
ElementConversions(vecm) == [i \in 1..Len(vecm) |-> from_scval(vecm[i], 1).ret]

RawJson(val) == FromScVal("JSON", Text(JsonOfVec(val.v)))

\* C14: a vector started at depth 0 that has an element converting to the JSON
\* type (a map or a nested vector) converts to JSON text of the raw vector.
C14_JsonElementsNeverPromoted ==
    (/\ StartedAtZero
     /\ scval[1].type = "Vec"
     /\ IsSome(scval[1].v)
     /\ \E i \in 1..Len(scval[1].v[1]) : scval[1].v[1][i].type \in {"Map", "Vec"})
        => converted = Some(RawJson(scval[1]))

ScalarKinds == {"Boolean", "Numeric", "Text"}

ArrayTag(kind_type) ==
    CASE kind_type = "Boolean" -> "BOOL_ARRAY"
      [] kind_type = "Numeric" -> "NUMERIC_ARRAY"
      [] kind_type = "Text" -> "TEXT_ARRAY"

\* C15: a top-level vector converts to a GenericArray of its element
\* conversions, tagged by their kind, iff it is not empty and all elements
\* convert to one target type with a boolean, numeric or text kind; otherwise it
\* converts to JSON text of the raw vector.
C15_ArrayIffHomogeneous ==
    (StartedAtZero /\ scval[1].type = "Vec" /\ IsSome(scval[1].v)) =>
        LET elems == ElementConversions(scval[1].v[1])
            homogeneous == /\ elems # <<>>
                           /\ \A i \in 1..Len(elems) :
                                 /\ elems[i].dbtype = elems[1].dbtype
                                 /\ elems[i].kind.type \in ScalarKinds
        IN  IF homogeneous
            THEN converted = Some(FromScVal(ArrayTag(elems[1].kind.type),
                                            GenericArray(elems)))
            ELSE converted = Some(RawJson(scval[1]))

\* the integer the limbs of a 128-bit or 256-bit value stand for, read
\* big-endian
LimbsValue(val) ==
    IF val.type \in {"U128", "I128"}
    THEN val.v.hi * Pow2(LimbBits) + val.v.lo
    ELSE val.v.hi_hi * Pow2(3 * LimbBits) + val.v.hi_lo * Pow2(2 * LimbBits)
         + val.v.lo_hi * Pow2(LimbBits) + val.v.lo_lo

Composed(val) ==
    CASE val.type = "I128" -> i128_to_bigint(val.v)
      [] val.type = "U128" -> u128_to_bigint(val.v)
      [] val.type = "I256" -> i256_to_bigint(val.v)
      [] val.type = "U256" -> u256_to_bigint(val.v)

DigitValue(c) == CHOOSE d \in 0..9 : DecimalDigit[d + 1] = c

RECURSIVE ParseDigits(_)
ParseDigits(str) ==
    IF Len(str) = 1
    THEN DigitValue(str[1])
    ELSE 10 * ParseDigits(SubSeq(str, 1, Len(str) - 1)) + DigitValue(str[Len(str)])

\* str is the base-10 rendering of n: digits only, no leading zero except for 0,
\* a leading '-' iff n is negative
IsDecimalOf(str, n) ==
    /\ str # <<>>
    /\ (str[1] = "-") <=> (n < 0)
    /\ LET digits == IF str[1] = "-" THEN Tail(str) ELSE str
       IN  /\ digits # <<>>
           /\ \A i \in 1..Len(digits) : digits[i] \in Range(DecimalDigit)
           /\ Len(digits) > 1 => digits[1] # "0"
           /\ ParseDigits(digits) = (IF n < 0 THEN 0 - n ELSE n)

BigTypes == {"U128", "I128", "U256", "I256"}

\* C16: the limbs of a 128-bit or 256-bit value compose to the integer they
\* stand for in two's complement, only the highest limb of a signed value being
\* signed, and num_to_string renders that integer in base 10.
C16_LimbComposition ==
    (calls >= 1 /\ scval[1].type \in BigTypes) =>
        /\ Composed(scval[1]) = LimbsValue(scval[1])
        /\ num_to_string(scval[1]) = converted[1].kind.v
        /\ IsDecimalOf(converted[1].kind.v, LimbsValue(scval[1]))

\* a negative I256 whose lower limbs have their top bit set was rendered
C16_Witness ==
    /\ calls >= 1
    /\ scval[1].type = "I256"
    /\ scval[1].v.hi_hi < 0
    /\ scval[1].v.hi_lo >= Pow2(LimbBits - 1)
    /\ scval[1].v.lo_hi >= Pow2(LimbBits - 1)
    /\ scval[1].v.lo_lo = Pow2(LimbBits) - 1
    /\ converted[1].kind.type = "Numeric"
    /\ converted[1].kind.v[1] = "-"

HexValue(c) == CHOOSE d \in 0..15 : HexDigit[d + 1] = c

\* the bytes a hex string stands for
HexDecode(hex) ==
    [i \in 1..(Len(hex) \div 2) |-> 16 * HexValue(hex[2 * i - 1]) + HexValue(hex[2 * i])]

CharCode(c) == CHOOSE byte \in StringBytes : CharOf(byte) = c

DbTypes == {"BOOL", "TEXT", "NUMERIC", "BYTEA", "JSON",
            "BOOL_ARRAY", "NUMERIC_ARRAY", "TEXT_ARRAY"}

\* a converted value that is no array and holds no trace of a panic
IsFlat(ret) ==
    /\ ret.dbtype \in DbTypes
    /\ ret.kind.type \in {"Text", "Boolean", "Void", "Numeric"}
    /\ ret.kind.type \in {"Text", "Numeric"} => ret.kind.v # Panic

\* C18: from_scval started at depth 0 returns a converted value for every
\* ScVal: no panic of num_to_string, no array inside an array, and
\* TEXT / Text("Invalid") for the kinds outside the mapping table.
C18_TotalAndFlat ==
    StartedAtZero =>
        /\ IsSome(converted)
        /\ IF converted[1].kind.type = "GenericArray"
           THEN /\ converted[1].dbtype \in {"BOOL_ARRAY", "NUMERIC_ARRAY", "TEXT_ARRAY"}
                /\ \A i \in 1..Len(converted[1].kind.v) : IsFlat(converted[1].kind.v[i])
           ELSE IsFlat(converted[1])
        /\ scval[1].type \in {"LedgerKeyContractInstance", "ContractInstance",
                              "LedgerKeyNonce"}
              => converted = Some(FromScVal("TEXT", Text(<<"Invalid">>)))

\* the vector nested three deep was converted, its inner vector as JSON text
C18_Witness ==
    /\ StartedAtZero
    /\ scval = Some(DeepVec)
    /\ converted[1].kind.type = "GenericArray"
    /\ converted[1].kind.v[1].dbtype = "JSON"

\* C19: the result of from_scval depends on the value alone, whatever was
\* converted before with the same counter, and the counter has on return the
\* value it had on entry.
C19_ConversionIsPure ==
    calls >= 1 =>
        /\ converted = Some(from_scval(scval[1], 0).ret)
        /\ recursion_depth = depth_in

(***************************************************************************)
(* lib.rs: retroshade_packed                                               *)
(*                                                                         *)
(* The diagnostic events are printed and handed through; they take no part *)
(* in the packing and are left out.                                        *)
(***************************************************************************)
RetroshadeExport(contract_id, target, event_object) ==
    [contract_id |-> contract_id, target |-> target, event_object |-> event_object]

PackedEventEntry(name, value) == [name |-> name, value |-> value]

RetroshadeExportPretty(contract_id, target, event) ==
    [contract_id |-> contract_id, target |-> target, event |-> event]

\* key_value.val.into(): the conversion of one value with a counter of its own
IntoFromScVal(val) == from_scval(val, 0).ret

\* a variant of PackEntries that packs the fields last entry first
PackEntriesReversed(map) ==
    IF \E i \in 1..Len(map) : map[i].key.type # "Symbol"
    THEN None
    ELSE Some([i \in 1..Len(map) |->
                  PackedEventEntry(StringToString(map[Len(map) + 1 - i].key.v),
                                   IntoFromScVal(map[Len(map) + 1 - i].val))])

\* the inner loop over the entries of a payload map: the packed fields, or
\* None where it returns Err(MalformedRetroshadeEvent)
PackEntries(map) ==
    IF \E i \in 1..Len(map) : map[i].key.type # "Symbol"
    THEN None
    ELSE Some([i \in 1..Len(map) |->
                  PackedEventEntry(StringToString(map[i].key.v),
                                   IntoFromScVal(map[i].val))])

\* one round of the outer loop: the packed record, or None where it returns
\* Err(MalformedRetroshadeEvent)
PackExport(retroshade) ==
    IF ~(retroshade.event_object.type = "Map" /\ IsSome(retroshade.event_object.v))
    THEN None
    ELSE LET entries == PackEntries(retroshade.event_object.v[1])
         IN  IF entries = None \/ retroshade.target.type # "Symbol"
             THEN None
             ELSE Some(RetroshadeExportPretty(StrKey("C", retroshade.contract_id),
                                              StringToString(retroshade.target.v),
                                              entries[1]))

\* the loop over the export records and the final Ok
PackExports(records) ==
    IF \E i \in 1..Len(records) : PackExport(records[i]) = None
    THEN [type |-> "MalformedRetroshadeEvent"]
    ELSE [type |-> "Ok",
          retroshades |-> [i \in 1..Len(records) |-> PackExport(records[i])[1]]]

\* retroshade_packed(): retroshade()?, then the packing of its export records
RetroshadePacked ==
    /\ pc = "idle"
    /\ IF host_function = None \/ resources = None \/ source_account = None
       THEN /\ result' = [type |-> "MissingContext"]
            /\ executor_input' = None
            /\ packed' = Some([type |-> "MissingContext"])
       ELSE /\ executor_input' =
                   Some([mode |-> "enforcing",
                         host_function |-> host_function[1],
                         resources |-> resources[1],
                         source_account |-> source_account[1],
                         auth_entries |-> auth_entries,
                         entries |-> target_pre_execution_state])
            /\ \/ /\ result' = [type |-> "Ok"]
                  /\ packed' = Some(PackExports(retroshades))
               \/ /\ result' = [type |-> "SVMHost"]
                  /\ packed' = Some([type |-> "SVMHost"])
    /\ pre_state' = target_pre_execution_state
    /\ UNCHANGED <<objvars, pc, tx_envelope, tx_meta, mercury_contracts, stages,
                   envvars, snapvars, convvars, retroshades>>

(***************************************************************************)
(* retroshade_packed on its own: an execution object, new or built, and    *)
(* the export records its executor returns                                 *)
(***************************************************************************)
\* the payloads of export records
EventObjects ==
    {Map(Some(<<MapEntry(Symbol(<<97>>), U32(7))>>)),
     Map(Some(<<MapEntry(Symbol(<<97>>), Vec(Some(<<Bool(TRUE), Bool(FALSE)>>))),
                MapEntry(Symbol(<<98>>), Vec(Some(<<U32(7)>>)))>>)),
     Map(Some(<<>>)),
     Map(Some(<<MapEntry(String(<<97>>), U32(7))>>)),
     Map(Some(<<MapEntry(Symbol(<<97>>), U32(7)), MapEntry(U32(0), Void)>>)),
     Map(None),
     Vec(Some(<<Symbol(<<97>>), U32(7)>>)),
     Void}

ExportRecords ==
    {RetroshadeExport(0, Symbol(<<97, 98>>), obj) : obj \in EventObjects}
    \cup {RetroshadeExport(1, Symbol(<<98>>), Map(Some(<<MapEntry(Symbol(<<97>>), U32(7))>>))),
          RetroshadeExport(0, String(<<97, 98>>),
                           Map(Some(<<MapEntry(Symbol(<<97>>), U32(7))>>)))}

InitPacked ==
    /\ NoSnapshot /\ NoConversion
    /\ \/ New
       \/ /\ target_pre_execution_state = <<>>
          /\ host_function = Some("invoke_t")
          /\ auth_entries = <<"auth_t">>
          /\ resources = Some([footprint |-> [read_only |-> <<>>, read_write |-> <<>>]])
          /\ source_account = Some(AccountIdOf(TxSource))
    /\ pc = "idle"
    /\ tx_envelope = None
    /\ tx_meta = <<>>
    /\ mercury_contracts = <<>>
    /\ result = [type |-> "New"]
    /\ stages = <<>>
    /\ pre_state = <<>>
    /\ executor_input = None
    /\ ledger_pre = EmptyLedger
    /\ ledger = EmptyLedger
    /\ env_pc = "post"
    /\ retroshades \in SeqsUpTo(ExportRecords, MaxRecords)
    /\ packed = None

NextPacked == RetroshadePacked

SpecPacked == InitPacked /\ [][NextPacked]_vars

(***************************************************************************)
(* Properties of retroshade_packed (SpecPacked)                            *)
(***************************************************************************)
\* retroshade_packed has returned and its executor had succeeded
PackedAfterReplay == IsSome(packed) /\ result.type = "Ok"

\* the payload is a map whose keys are all String or Symbol values
IsTextKeyedMap(obj) ==
    /\ obj.type = "Map"
    /\ IsSome(obj.v)
    /\ \A i \in 1..Len(obj.v[1]) : obj.v[1][i].key.type \in {"String", "Symbol"}

\* C20: after a successful replay retroshade_packed returns
\* MalformedRetroshadeEvent iff some export record's payload is not a map or
\* has a key that is neither a String nor a Symbol; otherwise it returns Ok with
\* the packed records; the failure carries no packed record.
C20_MalformedIffBadPayload ==
    PackedAfterReplay =>
        /\ (packed[1].type = "MalformedRetroshadeEvent")
              <=> (\E i \in 1..Len(retroshades) :
                      ~IsTextKeyedMap(retroshades[i].event_object))
        /\ packed[1].type # "MalformedRetroshadeEvent"
              => /\ packed[1].type = "Ok"
                 /\ Len(packed[1].retroshades) = Len(retroshades)
        /\ packed[1].type = "MalformedRetroshadeEvent"
              => DOMAIN packed[1] = {"type"}

\* C21: a successful retroshade_packed returns one packed record per export
\* record, in order, each with the contract id as strkey, the target's text and
\* one field per entry of the payload map in map order, the name being the
\* key's text and the value the entry's value converted with a counter of its
\* own.
C21_PackedRecordPerExport ==
    (IsSome(packed) /\ packed[1].type = "Ok") =>
        /\ Len(packed[1].retroshades) = Len(retroshades)
        /\ \A i \in 1..Len(retroshades) :
              LET export == retroshades[i]
                  pretty == packed[1].retroshades[i]
                  map == export.event_object.v[1]
              IN  /\ pretty.contract_id = StrKey("C", export.contract_id)
                  /\ pretty.target = StringToString(export.target.v)
                  /\ Len(pretty.event) = Len(map)
                  /\ \A j \in 1..Len(map) :
                        /\ pretty.event[j].name = StringToString(map[j].key.v)
                        /\ pretty.event[j].value = from_scval(map[j].val, 0).ret

\* two records were packed, the first with two fields that are both vectors
\* promoted to arrays
C21_Witness ==
    /\ IsSome(packed)
    /\ packed[1].type = "Ok"
    /\ Len(packed[1].retroshades) = 2
    /\ Len(packed[1].retroshades[1].event) = 2
    /\ packed[1].retroshades[1].event[1].name # packed[1].retroshades[1].event[2].name
    /\ \A j \in 1..2 : packed[1].retroshades[1].event[j].value.kind.type = "GenericArray"
    /\ packed[1].retroshades[1].contract_id # packed[1].retroshades[2].contract_id

\* C28: every element of a GenericArray that from_scval returns has the kind
\* of the array's tag, and to_sql keeps as many elements as the vector has.
C28_ArrayElementsMatchTag ==
    (calls >= 1 /\ converted[1].kind.type = "GenericArray") =>
        /\ \A i \in 1..Len(converted[1].kind.v) :
              converted[1].kind.v[i].kind.type =
                 (CASE converted[1].dbtype = "BOOL_ARRAY" -> "Boolean"
                    [] converted[1].dbtype = "NUMERIC_ARRAY" -> "Numeric"
                    [] converted[1].dbtype = "TEXT_ARRAY" -> "Text")
        /\ Len(ArrayToSql(converted[1])) = Len(scval[1].v[1])

(***************************************************************************)
(* The three replays on one object, any number of times: the object is     *)
(* new, or as a failed build left it (the resources alone are set), or     *)
(* built                                                                   *)
(***************************************************************************)
InitReplay ==
    /\ NoSnapshot /\ NoConversion
    /\ \/ New
       \/ /\ target_pre_execution_state = <<>>
          /\ host_function = None
          /\ auth_entries = <<>>
          /\ resources = Some([footprint |-> HelloFootprint])
          /\ source_account = None
       \/ /\ target_pre_execution_state \in
                {<<>>,
                 <<<<ContractCode(0, "wasm_a"), Some(500)>>,
                   <<InstanceRecord(0, Wasm(0)), Some(400)>>>>}
          /\ host_function = Some("invoke_t")
          /\ auth_entries = <<"auth_t">>
          /\ resources = Some([footprint |-> HelloFootprint])
          /\ source_account = Some(AccountIdOf(TxSource))
    /\ pc = "idle"
    /\ tx_envelope = None
    /\ tx_meta = <<>>
    /\ mercury_contracts = <<>>
    /\ result = [type |-> "New"]
    /\ stages = <<>>
    /\ pre_state = <<>>
    /\ executor_input = None
    /\ ledger_pre = EmptyLedger
    /\ ledger = EmptyLedger
    /\ env_pc = "post"
    /\ retroshades \in SeqsUpTo(ExportRecords, 1)
    /\ packed = None

NextReplay ==
    \/ Retroshade
    \/ RetroshadeRecording
    \/ RetroshadePacked

SpecReplay == InitReplay /\ [][NextReplay]_vars

\* what the object would hand to the executor in the given mode
HandedBy(mode) ==
    IF mode = "enforcing"
    THEN [mode |-> "enforcing",
          host_function |-> host_function[1],
          resources |-> resources[1],
          source_account |-> source_account[1],
          auth_entries |-> auth_entries,
          entries |-> target_pre_execution_state]
    ELSE [mode |-> "recording",
          host_function |-> host_function[1],
          source_account |-> source_account[1]]

\* C30: a step of retroshade, retroshade_recording or retroshade_packed leaves
\* the working set, the host function, the resources, the auth entries and the
\* source account as they were, and what it hands to the executor is what the
\* object still holds afterwards.
C30_ReplayLeavesObjectUnchanged ==
    [][/\ objvars' = objvars
       /\ IsSome(executor_input')
             => executor_input'[1] = (IF executor_input'[1].mode = "enforcing"
                                      THEN HandedBy("enforcing")'
                                      ELSE HandedBy("recording")')]_vars

\* on a built object with a working set retroshade_packed has succeeded and a
\* later retroshade, whose executor failed, was handed the same working set
C30_Witness ==
    /\ IsSome(packed)
    /\ packed[1].type = "Ok"
    /\ target_pre_execution_state # <<>>
    /\ IsSome(executor_input)
    /\ executor_input[1].mode = "enforcing"
    /\ executor_input[1].entries = target_pre_execution_state
    /\ result.type = "SVMHost"

====
